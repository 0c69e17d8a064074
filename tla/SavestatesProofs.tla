-------------------------- MODULE SavestatesProofs --------------------------
(***************************************************************************)
(* What the saves and loads of Savestates guarantee, for any number of     *)
(* slots, any requests and any number of them: a file never goes back to   *)
(* an older save, shutdown loses no save, a load of a slot never fails on  *)
(* a file that is being written, and a load gets the newest save.          *)
(*                                                                         *)
(* NamesKeepFormat: a name is not used both for a native state and for a   *)
(* PJ64 one.  A PJ64 file is written at once, a native one later by the    *)
(* worker, which would write the older state over the newer.               *)
(***************************************************************************)
EXTENDS Savestates, TLAPS

NativeTypes == {"m64p", "unknown"}
SavedNames(types) ==
    {r.fname : r \in {q \in Requests : q.kind = "save" /\ q.type \in types}}

NativeNames == SavedNames(NativeTypes) \ {NoName}
SlotFiles == Slots \X {"old", "m64p"}

\* The files that the worker may write.
NativeFiles == SlotFiles \cup ({-1} \X NativeNames)

\* No name is used both for a native save and for a PJ64 save.
NamesKeepFormat == NativeNames \cap SavedNames({"pj64_zip", "pj64_unc"}) = {}

\* The slot or name whose newest state a file may hold.
TargetOf(f) == IF f[1] = -1 THEN f ELSE <<f[1], "slot">>

-----------------------------------------------------------------------------
\* The inductive invariant.

Item == [file : Files, n : Nat, id : Nat]
Content == [type : Contents, id : Nat]
Loading == [at : {"dispatch", "read", "answer"}, id : Nat, file : Files,
            native : SUBSET {"old", "m64p"}, clean : BOOLEAN, want : Nat, got : Content,
            ret : BOOLEAN]

EmuOK ==
    \/ emu \in [at : {"run", "off"}]
    \/ emu \in [at : {"clear"}, id : Nat, called : BOOLEAN]
    \/ emu \in Loading

WorkerOK == worker = Idle \/ worker \in [at : {"open", "write", "close"}, item : Item]

MailboxOK ==
    /\ job \in [kind : {"nothing", "load", "save"}, type : Types,
                fname : Names \cup {NoName}, id : Nat]
    /\ asked \in Seq(Requests)
    /\ caller \in [at : {"idle", "freed", "kind"}]

StoreOK ==
    /\ slot \in Slots
    /\ files \in [Files -> Content]
    /\ queue \in Seq(Item)
    /\ saves \in Nat
    /\ newest \in [Targets -> Nat]
    /\ lock \in [owner : {"none", "emu", "worker"}, depth : Nat]
    /\ phase \in {"up", "down"}

StateOK == env \in Environments /\ EmuOK /\ WorkerOK /\ MailboxOK /\ StoreOK

\* Outside a load or a save the mailbox holds a request as it was made, or a
\* request without its name while another thread is still in savestates_set_job.
MailInv ==
    /\ caller.at # "idle" => asked # <<>>
    /\ caller.at = "freed" => job.fname = NoName
    /\ (emu.at \in {"run", "off"} /\ job.kind # "nothing" /\ job.fname # NoName) =>
          [kind |-> job.kind, type |-> job.type, fname |-> job.fname] \in Requests
    /\ (emu.at \in {"run", "off"} /\ job.kind # "nothing" /\ caller.at = "kind") =>
          /\ job.kind = asked[Len(asked)].kind
          /\ job.type = asked[Len(asked)].type
    /\ ~OtherThread => caller = Idle

Queued == {queue[i] : i \in 1 .. Len(queue)}

\* The saves are on their way in the order in which they were taken, and each is
\* newer than what its file holds.
OrderInv ==
    /\ \A i, j \in 1 .. Len(queue) : i < j => queue[i].n < queue[j].n
    /\ \A it \in Queued : /\ it.file \in NativeFiles
                          /\ it.n <= saves
                          /\ files[it.file].id < it.n
                          /\ it.n <= newest[TargetOf(it.file)]
    /\ worker.at # "idle" =>
          /\ worker.item.file \in NativeFiles
          /\ worker.item.n <= saves
          /\ \A it \in Queued : worker.item.n < it.n
          /\ worker.item.n <= newest[TargetOf(worker.item.file)]
          /\ worker.at = "open" =>
                files[worker.item.file].id < worker.item.n
          /\ worker.at # "open" =>
                files[worker.item.file].id = worker.item.n
    /\ \A f \in Files : files[f].id <= saves

\* The lock keeps a load and the worker apart, and while writes succeed it is
\* given back and only the file that the worker writes is incomplete.
LockInv ==
    /\ emu.at = "read" <=> lock.owner = "emu"
    /\ worker.at # "idle" => lock.owner = "worker" /\ lock.depth > 0
    /\ lock.owner = "none" => lock.depth = 0
    /\ ~WritesFail /\ lock.owner = "worker" => worker.at # "idle" /\ lock.depth = 1

FileInv ==
    ~WritesFail =>
        /\ \A f \in Files : files[f].type \in {"empty", "partial", "broken"} =>
              worker.at \in {"write", "close"} /\ worker.item.file = f
        /\ worker.at = "write" => files[worker.item.file].type = "empty"
        /\ worker.at = "close" => files[worker.item.file].type = "partial"
        /\ \A f \in SlotFiles : files[f].type \notin {"pj64_zip", "pj64_unc"}

\* The newest save of target t is complete in a file of t, or on its way.
Kept(t) ==
    \E f \in Files :
        /\ TargetOf(f) = t
        /\ f[1] # -1 => f \in SlotFiles
        /\ \/ files[f].type \in Types /\ files[f].id = newest[t]
           \/ \E it \in Queued : it.file = f /\ it.n = newest[t]
           \/ worker.at # "idle" /\ worker.item.file = f /\ worker.item.n = newest[t]

KeptInv == ~WritesFail => \A t \in Targets : newest[t] # 0 => Kept(t)

DownInv == phase = "down" => emu.at = "off" /\ Clean

\* What a load has found out when nobody else writes the mailbox.
LoadInv ==
    ~WritesFail /\ ~OtherThread =>
        /\ emu.at \in {"dispatch", "read"} /\ NativeThere =>
              /\ emu.file \in SlotFiles
              /\ files[emu.file].type # "missing"
              /\ job.type = "m64p"
        /\ emu.at = "read" => job.type = "m64p"
        /\ (/\ emu.at \in {"dispatch", "read"} /\ emu.clean /\ emu.want # 0
            /\ emu.file \notin Slots \X {"old"}) =>
              /\ Clean
              /\ files[emu.file] = [type |-> job.type, id |-> emu.want]

SaveInv ==
    /\ StateOK /\ MailInv /\ OrderInv /\ LockInv /\ FileInv /\ KeptInv /\ DownInv
    /\ LoadInv /\ SlotLoadSucceeds /\ LoadGetsNewest

-----------------------------------------------------------------------------
\* Facts about the constants and the shapes of the records.

\* Every file belongs to a slot or a name, and slots are not names.
LEMMA FileFacts ==
    /\ Slots \subseteq Nat /\ -1 \notin Slots
    /\ \A f \in Files : TargetOf(f) \in Targets
    /\ SlotFiles \subseteq Files /\ NativeFiles \subseteq Files
    /\ \A s \in Slots : /\ <<s, "old">> \in SlotFiles /\ <<s, "m64p">> \in SlotFiles
                        /\ <<s, "pj64_zip">> \in Files /\ <<s, "pj64_unc">> \in Files
                        /\ TargetOf(<<s, "old">>) = <<s, "slot">>
                        /\ TargetOf(<<s, "m64p">>) = <<s, "slot">>
    /\ \A a \in Names : <<-1, a>> \in Files /\ TargetOf(<<-1, a>>) = <<-1, a>>
<1>1. Slots \subseteq Nat /\ -1 \notin Slots
  BY SavestatesAssumption DEF Slots
<1>2. NativeNames \subseteq Names
  BY DEF NativeNames, SavedNames, Names
<1>3. \A f \in Files : TargetOf(f) \in Targets
  BY <1>1 DEF Files, TargetOf, Targets
<1>4. SlotFiles \subseteq Files /\ NativeFiles \subseteq Files
  BY <1>2 DEF SlotFiles, NativeFiles, Files
<1>5. \A s \in Slots : /\ <<s, "old">> \in SlotFiles /\ <<s, "m64p">> \in SlotFiles
                       /\ <<s, "pj64_zip">> \in Files /\ <<s, "pj64_unc">> \in Files
                       /\ TargetOf(<<s, "old">>) = <<s, "slot">>
                       /\ TargetOf(<<s, "m64p">>) = <<s, "slot">>
  BY <1>1 DEF SlotFiles, Files, TargetOf
<1>6. \A a \in Names : <<-1, a>> \in Files /\ TargetOf(<<-1, a>>) = <<-1, a>>
  BY DEF Files, TargetOf
<1> QED BY <1>1, <1>3, <1>4, <1>5, <1>6

\* Where a thread is determines which fields its record has.
LEMMA Shapes ==
    ASSUME StateOK
    PROVE  /\ emu.at \in {"run", "off", "clear", "dispatch", "read", "answer"}
           /\ emu.at \in {"dispatch", "read", "answer"} => emu \in Loading
           /\ emu.at = "clear" => emu.id \in Nat
           /\ worker.at \in {"idle", "open", "write", "close"}
           /\ worker.at = "idle" <=> worker = Idle
           /\ worker.at # "idle" =>
                 worker \in [at : {"open", "write", "close"}, item : Item]
           /\ caller.at = "idle" <=> caller = Idle
<1>1. emu.at \in {"run", "off", "clear", "dispatch", "read", "answer"}
  BY DEF StateOK, EmuOK, Loading
<1>2. emu.at \in {"dispatch", "read", "answer"} => emu \in Loading
  BY DEF StateOK, EmuOK, Loading
<1>3. emu.at = "clear" => emu.id \in Nat
  BY DEF StateOK, EmuOK, Loading
<1>4. /\ worker.at \in {"idle", "open", "write", "close"}
      /\ worker.at = "idle" <=> worker = Idle
      /\ worker.at # "idle" =>
            worker \in [at : {"open", "write", "close"}, item : Item]
  BY DEF StateOK, WorkerOK, Idle
<1>5. caller.at = "idle" <=> caller = Idle
  BY DEF StateOK, MailboxOK, Idle
<1> QED BY <1>1, <1>2, <1>3, <1>4, <1>5

\* savestates_generate_path: the file of a save or load belongs to the slot or
\* name it is for.
LEMMA PathFacts ==
    ASSUME StateOK
    PROVE  /\ SlotPath \in SlotFiles /\ TargetOf(SlotPath) = <<slot, "slot">>
           /\ \A type \in {"m64p", "pj64_zip", "pj64_unc"} : Path(type) \in Files
           /\ TargetOf(Path("m64p")) = Target(job.fname)
           /\ Target(job.fname) \in Targets
           /\ job.fname = NoName => Path("m64p") = SlotPath
           /\ job.fname # NoName => \A type : Path(type) = <<-1, job.fname>>
<1>1. slot \in Slots /\ job.fname \in Names \cup {NoName}
  BY DEF StateOK, StoreOK, MailboxOK
<1>2. SlotPath \in SlotFiles /\ TargetOf(SlotPath) = <<slot, "slot">>
  BY <1>1, FileFacts DEF SlotPath
<1>3. job.fname = NoName => Path("m64p") = SlotPath
  BY DEF Path
<1>4. job.fname # NoName => \A type : Path(type) = <<-1, job.fname>>
  BY DEF Path
<1>5. \A type \in {"m64p", "pj64_zip", "pj64_unc"} : Path(type) \in Files
  BY <1>1, <1>2, <1>4, FileFacts DEF Path
<1>6. TargetOf(Path("m64p")) = Target(job.fname)
  BY <1>1, <1>2, <1>3, <1>4, FileFacts DEF Target
<1>7. Target(job.fname) \in Targets
  BY <1>1 DEF Target, Targets
<1> QED BY <1>2, <1>3, <1>4, <1>5, <1>6, <1>7

-----------------------------------------------------------------------------
\* Types.

\* The front-end's requests.
LEMMA RequestFacts ==
    \A r \in Requests : /\ r.kind \in {"load", "save"} /\ r.type \in Types
                        /\ r.fname \in Names \cup {NoName}
  BY SavestatesAssumption DEF Names

LEMMA InitTypes == Init => StateOK
<1> SUFFICES ASSUME Init PROVE StateOK
  OBVIOUS
<1>1. EmuOK /\ WorkerOK
  BY DEF Init, EmuOK, WorkerOK, Running
<1>2. MailboxOK
  BY DEF Init, MailboxOK, Nothing, Types, Idle
<1>3. files \in [Files -> Content]
  BY DEF Init, Content, Contents, Missing
<1>4. StoreOK
  BY <1>3 DEF Init, StoreOK
<1> QED BY <1>1, <1>2, <1>4 DEF Init, StateOK

\* The steps of savestates_set_job and savestates_select_slot.
LEMMA RequestTypes ==
    ASSUME StateOK, MailInv, env' = env,
           \/ \E r \in Requests : SetJob(r) \/ SetJobFree(r)
           \/ SetJobKind \/ SetJobName
           \/ \E s \in Slots : SelectSlot(s)
    PROVE  StateOK'
<1> USE DEF StateOK, MailboxOK
<1>1. ASSUME NEW r \in Requests, SetJob(r) PROVE StateOK'
  <2>1. MailboxOK'
    BY <1>1, RequestFacts DEF SetJob
  <2> QED BY <1>1, <2>1 DEF SetJob, EmuOK, WorkerOK, StoreOK
<1>2. ASSUME NEW r \in Requests, SetJobFree(r) PROVE StateOK'
  <2>1. MailboxOK'
    BY <1>2 DEF SetJobFree
  <2> QED BY <1>2, <2>1 DEF SetJobFree, EmuOK, WorkerOK, StoreOK
<1>3. CASE SetJobKind
  <2>1. Len(asked) \in Nat /\ asked[Len(asked)] \in Requests
    BY <1>3 DEF SetJobKind, MailInv
  <2>2. MailboxOK'
    BY <1>3, <2>1, RequestFacts DEF SetJobKind
  <2> QED BY <1>3, <2>2 DEF SetJobKind, EmuOK, WorkerOK, StoreOK
<1>4. CASE SetJobName
  <2>1. asked[Len(asked)] \in Requests
    BY <1>4 DEF SetJobName, MailInv
  <2>2. MailboxOK'
    BY <1>4, <2>1, RequestFacts DEF SetJobName, Idle
  <2> QED BY <1>4, <2>2 DEF SetJobName, EmuOK, WorkerOK, StoreOK
<1>5. ASSUME NEW s \in Slots, SelectSlot(s) PROVE StateOK'
  BY <1>5 DEF SelectSlot, EmuOK, WorkerOK, StoreOK, history
<1> QED BY <1>1, <1>2, <1>3, <1>4, <1>5

\* The steps of a load.
LEMMA LoadTypes ==
    ASSUME StateOK, env' = env,
           LoadProbe \/ LoadLock \/ LoadRead \/ LoadOther \/ LoadAnswer
    PROVE  StateOK'
<1>1. CASE LoadProbe
  <2> DEFINE types == {t \in {"m64p", "pj64_zip", "pj64_unc"} : Exists(Path(t))}
             type  == IF job.fname # NoName
                      THEN IF job.type = "unknown" THEN DetectType(Path("m64p"))
                           ELSE job.type
                      ELSE CASE "m64p" \in types -> "m64p"
                             [] "m64p" \notin types /\ "pj64_zip" \in types -> "pj64_zip"
                             [] types = {"pj64_unc"} -> "pj64_unc"
                             [] OTHER -> "unknown"
             found == IF job.fname # NoName THEN Exists(Path(type)) ELSE types # {}
  <2>1. /\ job' = [job EXCEPT !.type = type]
        /\ emu' = [at    |-> IF found THEN "dispatch" ELSE "answer",
                   id    |-> job.id,
                   file  |-> IF found THEN Path(type) ELSE <<slot, "m64p">>,
                   native |-> NativeNamesOf(job.fname),
                   clean |-> Clean,
                   want  |-> newest[Target(job.fname)],
                   got   |-> Missing,
                   ret   |-> FALSE]
        /\ UNCHANGED <<caller, slot, files, queue, worker, lock, saves, history, phase>>
    BY <1>1 DEF LoadProbe
  <2>2. job.type \in Types /\ slot \in Slots /\ newest \in [Targets -> Nat]
    BY DEF StateOK, MailboxOK, StoreOK
  <2>3. type \in Types
    BY <2>2 DEF DetectType, Types
  <2>4. found => Path(type) \in Files
    <3>1. CASE job.fname # NoName
      BY <3>1, PathFacts
    <3>2. CASE job.fname = NoName
      <4>1. found => type \in {"m64p", "pj64_zip", "pj64_unc"}
        BY <3>2
      <4> QED BY <4>1, PathFacts
    <3> QED BY <3>1, <3>2
  <2>5. <<slot, "m64p">> \in Files
    BY <2>2, FileFacts
  <2>6. newest[Target(job.fname)] \in Nat /\ Missing \in Content
    BY <2>2, PathFacts DEF Missing, Content, Contents
  <2> HIDE DEF type, found
  <2>7. emu' \in Loading
    BY <2>1, <2>4, <2>5, <2>6 DEF Loading, StateOK, MailboxOK, Clean,
       NativeNamesOf
  <2>8. MailboxOK'
    BY <2>1, <2>3 DEF StateOK, MailboxOK, history
  <2> QED BY <2>1, <2>7, <2>8 DEF StateOK, EmuOK, WorkerOK, StoreOK, history
<1>2. CASE LoadLock
  <2>1. emu' \in Loading
    BY <1>2, Shapes DEF LoadLock, Loading
  <2> QED BY <1>2, <2>1 DEF LoadLock, StateOK, EmuOK, WorkerOK, MailboxOK, StoreOK,
                            history
<1>3. CASE LoadRead
  <2>1. emu \in Loading /\ files[emu.file] \in Content
    BY <1>3, Shapes DEF LoadRead, StateOK, StoreOK, Loading
  <2>2. emu' \in Loading
    BY <1>3, <2>1 DEF LoadRead, Loading
  <2> QED BY <1>3, <2>2 DEF LoadRead, StateOK, EmuOK, WorkerOK, MailboxOK, StoreOK,
                            history
<1>4. CASE LoadOther
  <2>1. emu \in Loading /\ files[emu.file] \in Content
    BY <1>4, Shapes DEF LoadOther, StateOK, StoreOK, Loading
  <2>2. emu' \in Loading
    BY <1>4, <2>1 DEF LoadOther, Loading
  <2> QED BY <1>4, <2>2 DEF LoadOther, StateOK, EmuOK, WorkerOK, MailboxOK, StoreOK,
                            history
<1>5. CASE LoadAnswer
  <2>1. emu.id \in Nat
    BY <1>5, Shapes DEF LoadAnswer, Loading
  <2> QED BY <1>5, <2>1 DEF LoadAnswer, StateOK, EmuOK, WorkerOK, MailboxOK, StoreOK
<1> QED BY <1>1, <1>2, <1>3, <1>4, <1>5

\* A save is handed over to the worker, fails at once, or is a PJ64 state
\* written to a named file.
LEMMA SaveCases ==
    ASSUME StateOK, MailInv, Save
    PROVE  /\ emu.at = "run" /\ job.kind = "save"
           /\ emu' \in [at : {"clear"}, id : Nat, called : BOOLEAN]
           /\ \E type \in Types : job' = [job EXCEPT !.type = type]
           /\ UNCHANGED <<caller, worker, lock, asked, phase>>
           /\ \/ SaveNative /\ Path("m64p") \in NativeFiles
              \/ SaveNoMemory
              \/ \E type \in {"pj64_zip", "pj64_unc"} :
                    /\ SavePj64(type)
                    /\ job.fname \in Names
                    /\ job.fname \in SavedNames({"pj64_zip", "pj64_unc"})
                    /\ Path(type) = <<-1, job.fname>>
                    /\ Target(job.fname) = <<-1, job.fname>>
<1> DEFINE type == IF job.fname = NoName \/ job.type = "unknown" THEN "m64p"
                   ELSE job.type
<1>1. /\ emu.at = "run" /\ job.kind = "save"
      /\ IF type = "m64p" THEN SaveNative \/ SaveNoMemory ELSE SavePj64(type)
      /\ emu' = [at |-> "clear", id |-> job.id, called |-> type # "m64p"]
      /\ job' = [job EXCEPT !.type = type]
      /\ UNCHANGED <<caller, worker, lock, asked, phase>>
  BY DEF Save
<1>2. /\ job.type \in Types /\ job.id \in Nat
      /\ job.fname \in Names \cup {NoName} /\ slot \in Slots
  BY DEF StateOK, MailboxOK, StoreOK
<1>3. type \in Types
  BY <1>2 DEF Types
<1>4. job.fname # NoName =>
         [kind |-> "save", type |-> job.type, fname |-> job.fname] \in Requests
  BY <1>1 DEF MailInv
<1>5. CASE type = "m64p"
  <2>1. Path("m64p") \in NativeFiles
    <3>1. CASE job.fname = NoName
      BY <3>1, PathFacts DEF NativeFiles
    <3>2. CASE job.fname # NoName
      <4>1. job.type \in NativeTypes
        BY <1>5, <3>2 DEF NativeTypes
      <4>2. job.fname \in NativeNames
        BY <1>4, <3>2, <4>1 DEF NativeNames, SavedNames
      <4> QED BY <3>2, <4>2, PathFacts DEF NativeFiles
    <3> QED BY <3>1, <3>2
  <2> QED BY <1>1, <1>2, <1>3, <1>5, <2>1
<1>6. CASE type # "m64p"
  <2>1. /\ job.fname # NoName /\ type = job.type
        /\ type \in {"pj64_zip", "pj64_unc"}
    BY <1>2, <1>6 DEF Types
  <2>2. job.fname \in SavedNames({"pj64_zip", "pj64_unc"})
    BY <1>4, <2>1 DEF SavedNames
  <2>3. Path(type) = <<-1, job.fname>> /\ Target(job.fname) = <<-1, job.fname>>
    BY <2>1, PathFacts DEF Target
  <2> QED BY <1>1, <1>2, <1>3, <1>6, <2>1, <2>2, <2>3
<1> QED BY <1>5, <1>6

LEMMA SlotTypes ==
    ASSUME slot \in Slots
    PROVE  AfterSave \in Slots
  BY SavestatesAssumption DEF AfterSave, IncSlot, Slots

\* A native save: what is queued and what it is for.
LEMMA SaveTypes ==
    ASSUME StateOK, MailInv, env' = env, Save
    PROVE  StateOK'
<1>1. /\ emu' \in [at : {"clear"}, id : Nat, called : BOOLEAN]
      /\ \E type \in Types : job' = [job EXCEPT !.type = type]
      /\ UNCHANGED <<caller, worker, lock, asked, phase>>
  BY SaveCases
<1>2. EmuOK' /\ WorkerOK' /\ MailboxOK'
  BY <1>1 DEF StateOK, EmuOK, WorkerOK, MailboxOK
<1>3. /\ slot \in Slots /\ files \in [Files -> Content] /\ queue \in Seq(Item)
      /\ saves \in Nat /\ newest \in [Targets -> Nat] /\ job.id \in Nat
  BY DEF StateOK, StoreOK, MailboxOK
<1>4. Target(job.fname) \in Targets /\ Path("m64p") \in Files /\ AfterSave \in Slots
  BY <1>3, PathFacts, SlotTypes
<1>5. CASE SaveNative
  <2>1. queue' \in Seq(Item)
    BY <1>3, <1>4, <1>5 DEF SaveNative, Item
  <2>2. saves' \in Nat /\ newest' \in [Targets -> Nat] /\ slot' \in Slots
    BY <1>3, <1>4, <1>5 DEF SaveNative
  <2> QED BY <1>1, <1>2, <1>5, <2>1, <2>2 DEF SaveNative, StateOK, StoreOK
<1>6. CASE SaveNoMemory
  <2>1. slot' \in Slots
    BY <1>3, <1>4, <1>6 DEF SaveNoMemory
  <2> QED BY <1>1, <1>2, <1>6, <2>1 DEF SaveNoMemory, StateOK, StoreOK
<1>7. ASSUME NEW type \in {"pj64_zip", "pj64_unc"}, SavePj64(type) PROVE StateOK'
  <2>1. /\ [type |-> type, id |-> saves + 1] \in Content
        /\ [type |-> "broken", id |-> saves + 1] \in Content
    BY <1>3 DEF Content, Contents
  <2>2. files' \in [Files -> Content]
    BY <1>3, <1>7, <2>1 DEF SavePj64
  <2>3. saves' \in Nat /\ newest' \in [Targets -> Nat]
    BY <1>3, <1>4, <1>7 DEF SavePj64
  <2> QED BY <1>1, <1>2, <1>7, <2>2, <2>3 DEF SavePj64, StateOK, StoreOK
<1> QED BY <1>5, <1>6, <1>7, SaveCases

\* The other steps of the emulation thread, and shutdown.
LEMMA OtherTypes ==
    ASSUME StateOK, env' = env, ClearJob \/ Stop \/ Execute \/ CoreShutdown
    PROVE  StateOK'
<1>1. Nothing \in [kind : {"nothing", "load", "save"}, type : Types,
                   fname : Names \cup {NoName}, id : Nat]
  BY DEF Nothing, Types
<1>2. CASE ClearJob
  BY <1>1, <1>2 DEF ClearJob, Running, StateOK, EmuOK, WorkerOK, MailboxOK, StoreOK,
                    history
<1>3. CASE Stop
  BY <1>3 DEF Stop, StateOK, EmuOK, WorkerOK, MailboxOK, StoreOK, history
<1>4. CASE Execute
  BY <1>4 DEF Execute, Running, StateOK, EmuOK, WorkerOK, MailboxOK, StoreOK, history
<1>5. CASE CoreShutdown
  BY <1>1, <1>5 DEF CoreShutdown, StateOK, EmuOK, WorkerOK, MailboxOK, StoreOK,
                    history
<1> QED BY <1>2, <1>3, <1>4, <1>5

\* The steps of the worker.
LEMMA WorkerTypes ==
    ASSUME StateOK, LockInv, env' = env, WorkerStep
    PROVE  StateOK'
<1>1. /\ files \in [Files -> Content] /\ queue \in Seq(Item)
      /\ lock \in [owner : {"none", "emu", "worker"}, depth : Nat]
  BY DEF StateOK, StoreOK
<1>2. CASE WorkerTake
  <2>1. Head(queue) \in Item /\ queue' \in Seq(Item)
    BY <1>1, <1>2 DEF WorkerTake
  <2>2. lock' \in [owner : {"none", "emu", "worker"}, depth : Nat]
    BY <1>1, <1>2 DEF WorkerTake, Locked
  <2>3. WorkerOK'
    BY <1>2, <2>1 DEF WorkerTake, WorkerOK
  <2> QED BY <1>2, <2>1, <2>2, <2>3
          DEF WorkerTake, StateOK, EmuOK, MailboxOK, StoreOK, history
<1>3. CASE WorkerOpen
  <2>1. worker \in [at : {"open", "write", "close"}, item : Item]
    BY <1>3, Shapes DEF WorkerOpen
  <2>2. [type |-> "empty", id |-> worker.item.n] \in Content
    BY <2>1 DEF Content, Contents, Item
  <2>3. files' \in [Files -> Content]
    BY <1>1, <1>3, <2>2 DEF WorkerOpen
  <2>4. WorkerOK'
    BY <1>3, <2>1 DEF WorkerOpen, WorkerOK
  <2> QED BY <1>3, <2>3, <2>4 DEF WorkerOpen, StateOK, EmuOK, MailboxOK, StoreOK,
                                  history
<1>4. CASE WorkerWrite
  <2>1. worker \in [at : {"open", "write", "close"}, item : Item]
    BY <1>4, Shapes DEF WorkerWrite
  <2>2. files' \in [Files -> Content]
    BY <1>1, <1>4, <2>1 DEF WorkerWrite, Content, Contents, Item
  <2>3. WorkerOK'
    BY <1>4, <2>1 DEF WorkerWrite, WorkerOK
  <2> QED BY <1>4, <2>2, <2>3 DEF WorkerWrite, StateOK, EmuOK, MailboxOK, StoreOK,
                                  history
<1>5. CASE WorkerClose
  <2>1. worker \in [at : {"open", "write", "close"}, item : Item]
    BY <1>5, Shapes DEF WorkerClose
  <2>2. files' \in [Files -> Content]
    <3>1. CASE UNCHANGED files
      BY <1>1, <3>1
    <3>2. CASE files' = [files EXCEPT ![worker.item.file].type = "m64p"]
      BY <1>1, <2>1, <3>2 DEF Content, Contents, Item
    <3> QED BY <1>5, <3>1, <3>2 DEF WorkerClose
  <2>3. lock' \in [owner : {"none", "emu", "worker"}, depth : Nat]
    <3>1. lock.depth > 0
      BY <1>5 DEF WorkerClose, LockInv
    <3> QED BY <1>1, <1>5, <3>1 DEF WorkerClose, Unlocked
  <2> QED BY <1>5, <2>2, <2>3 DEF WorkerClose, WorkerOK, StateOK, EmuOK, MailboxOK,
                                  StoreOK
<1>6. CASE WorkerFail
  BY <1>6 DEF WorkerFail, WorkerOK, StateOK, EmuOK, MailboxOK, StoreOK
<1> QED BY <1>2, <1>3, <1>4, <1>5, <1>6 DEF WorkerStep

-----------------------------------------------------------------------------
\* The mailbox.

\* A load in progress stays one until it has answered.
LEMMA LoadAt ==
    ASSUME StateOK, LoadProbe \/ LoadLock \/ LoadRead \/ LoadOther \/ LoadAnswer
    PROVE  /\ emu'.at \in {"dispatch", "read", "answer", "clear"}
           /\ caller' = caller /\ asked' = asked /\ job'.fname = job.fname
           /\ job.kind = job'.kind
           /\ UNCHANGED <<slot, files, queue, worker, saves, newest, phase>>
<1>1. CASE LoadProbe
  BY <1>1 DEF LoadProbe, history, StateOK, MailboxOK
<1>2. CASE LoadLock
  BY <1>2, Shapes DEF LoadLock, history, Loading
<1>3. CASE LoadRead
  BY <1>3, Shapes DEF LoadRead, history, Loading
<1>4. CASE LoadOther
  BY <1>4, Shapes DEF LoadOther, history, Loading
<1>5. CASE LoadAnswer
  BY <1>5 DEF LoadAnswer
<1> QED BY <1>1, <1>2, <1>3, <1>4, <1>5

LEMMA MailStep ==
    ASSUME StateOK, StateOK', MailInv, [Next]_vars
    PROVE  MailInv'
<1> USE DEF MailInv
<1>0. OtherThread' = OtherThread
  BY DEF Next, vars, OtherThread
<1>1. ASSUME NEW r \in Requests, SetJob(r) PROVE MailInv'
  <2>1. /\ caller = Idle /\ caller' = Idle
        /\ job' = [kind |-> r.kind, type |-> r.type, fname |-> r.fname, id |-> Len(asked')]
    BY <1>1 DEF SetJob
  <2>2. [kind |-> r.kind, type |-> r.type, fname |-> r.fname] = r
    BY SavestatesAssumption
  <2> QED BY <2>1, <2>2 DEF Idle
<1>2. ASSUME NEW r \in Requests, SetJobFree(r) PROVE MailInv'
  <2>1. /\ asked' = Append(asked, r) /\ job'.fname = NoName
        /\ caller' = [at |-> "freed"] /\ OtherThread
    BY <1>2 DEF SetJobFree, StateOK, MailboxOK
  <2>2. asked' # <<>>
    BY <2>1 DEF StateOK, MailboxOK
  <2> QED BY <1>0, <2>1, <2>2
<1>3. CASE SetJobKind
  <2> DEFINE r == asked[Len(asked)]
  <2>1. /\ caller.at = "freed" /\ caller' = [at |-> "kind"] /\ asked' = asked
        /\ job' = [job EXCEPT !.kind = r.kind, !.type = r.type, !.id = Len(asked)]
    BY <1>3 DEF SetJobKind
  <2>2. /\ job'.kind = r.kind /\ job'.type = r.type /\ job'.fname = NoName
    BY <2>1 DEF StateOK, MailboxOK
  <2>3. OtherThread
    BY <2>1 DEF Idle
  <2> QED BY <1>0, <2>1, <2>2, <2>3
<1>4. CASE SetJobName
  <2> DEFINE r == asked[Len(asked)]
  <2>1. /\ caller.at = "kind" /\ caller' = Idle /\ asked' = asked /\ emu' = emu
        /\ job' = [job EXCEPT !.fname = r.fname]
    BY <1>4 DEF SetJobName
  <2>2. r \in Requests
    BY <2>1 DEF StateOK, MailboxOK
  <2>3. r = [kind |-> r.kind, type |-> r.type, fname |-> r.fname]
    BY <2>2, SavestatesAssumption
  <2> HIDE DEF r
  <2>4. /\ job'.kind = job.kind /\ job'.type = job.type /\ job'.fname = r.fname
    BY <2>1 DEF StateOK, MailboxOK
  <2>5. emu.at \in {"run", "off"} /\ job.kind # "nothing" =>
           job.kind = r.kind /\ job.type = r.type
    BY <2>1 DEF r
  <2> QED BY <2>1, <2>2, <2>3, <2>4, <2>5 DEF Idle
<1>5. ASSUME NEW s \in Slots, SelectSlot(s) PROVE MailInv'
  BY <1>0, <1>5 DEF SelectSlot, history
<1>6. CASE LoadProbe \/ LoadLock \/ LoadRead \/ LoadOther \/ LoadAnswer
  BY <1>0, <1>6, LoadAt
<1>7. CASE Save
  <2>1. job'.fname = job.fname /\ emu'.at = "clear" /\ UNCHANGED <<caller, asked>>
    BY <1>7, SaveCases DEF StateOK, MailboxOK
  <2> QED BY <1>0, <2>1
<1>8. CASE ClearJob \/ CoreShutdown
  BY <1>0, <1>8 DEF ClearJob, CoreShutdown, Nothing, history
<1>9. CASE Stop \/ Execute
  BY <1>0, <1>9 DEF Stop, Execute, history, Running
<1>10. CASE WorkerStep
  BY <1>0, <1>10 DEF WorkerStep, WorkerTake, WorkerOpen, WorkerWrite, WorkerClose,
                     WorkerFail, history
<1>11. CASE UNCHANGED vars
  BY <1>0, <1>11 DEF vars
<1> QED BY <1>1, <1>2, <1>3, <1>4, <1>5, <1>6, <1>7, <1>8, <1>9, <1>10, <1>11
        DEF Next, Step, EmuStep

-----------------------------------------------------------------------------
\* The lock.

\* The steps that neither take nor release the lock.
LEMMA LockQuiet ==
    ASSUME LockInv, WritesFail' = WritesFail, lock' = lock,
           worker.at = worker'.at \/ (worker.at # "idle" /\ worker'.at # "idle"),
           (emu.at = "read") = (emu'.at = "read")
    PROVE  LockInv'
  BY DEF LockInv

LEMMA LockStep ==
    ASSUME StateOK, StateOK', MailInv, LockInv, [Next]_vars
    PROVE  LockInv'
<1>0. WritesFail' = WritesFail
  BY DEF Next, vars, WritesFail
<1>1. CASE \/ \E r \in Requests : SetJob(r) \/ SetJobFree(r)
           \/ SetJobKind \/ SetJobName
           \/ \E s \in Slots : SelectSlot(s)
  <2>1. UNCHANGED <<lock, worker, emu>>
    BY <1>1 DEF SetJob, SetJobFree, SetJobKind, SetJobName, SelectSlot
  <2> QED BY <1>0, <2>1, LockQuiet
<1>2. CASE LoadProbe
  BY <1>0, <1>2, LockQuiet DEF LoadProbe
<1>3. CASE LoadLock
  <2>1. /\ lock.owner = "none" /\ lock' = [owner |-> "emu", depth |-> 1]
        /\ worker' = worker /\ emu'.at = "read"
    BY <1>3, Shapes DEF LoadLock, Loading
  <2> QED BY <2>1 DEF LockInv
<1>4. CASE LoadRead
  <2>1. /\ emu.at = "read" /\ lock' = [owner |-> "none", depth |-> 0]
        /\ worker' = worker /\ emu'.at = "answer"
    BY <1>4, Shapes DEF LoadRead, Loading
  <2> QED BY <2>1 DEF LockInv
<1>5. CASE LoadOther \/ LoadAnswer
  <2>1. CASE LoadOther
    <3>1. emu \in Loading /\ emu.at = "dispatch"
      BY <2>1, Shapes DEF LoadOther
    <3>2. emu'.at = "answer" /\ UNCHANGED <<lock, worker>>
      BY <2>1, <3>1 DEF LoadOther, Loading
    <3> QED BY <1>0, <3>1, <3>2, LockQuiet
  <2>2. CASE LoadAnswer
    BY <1>0, <2>2, LockQuiet DEF LoadAnswer
  <2> QED BY <1>5, <2>1, <2>2
<1>6. CASE Save
  <2>1. UNCHANGED <<lock, worker>> /\ emu.at = "run" /\ emu'.at = "clear"
    BY <1>6, SaveCases
  <2> QED BY <1>0, <2>1, LockQuiet
<1>7. CASE ClearJob \/ Stop \/ Execute \/ CoreShutdown
  <2>1. UNCHANGED <<lock, worker>> /\ (emu.at = "read") = (emu'.at = "read")
    BY <1>7 DEF ClearJob, Stop, Execute, CoreShutdown, Running
  <2> QED BY <1>0, <2>1, LockQuiet
<1>8. CASE WorkerTake
  <2>1. /\ worker.at = "idle" /\ worker'.at = "open" /\ emu' = emu
        /\ lock.owner \in {"none", "worker"}
        /\ lock' = [owner |-> "worker", depth |-> lock.depth + 1]
    BY <1>8 DEF WorkerTake, Locked, Idle
  <2>2. lock.depth \in Nat
    BY DEF StateOK, StoreOK
  <2> QED BY <1>0, <2>1, <2>2 DEF LockInv
<1>9. CASE WorkerOpen \/ WorkerWrite
  <2>1. UNCHANGED <<lock, emu>> /\ worker.at # "idle" /\ worker'.at # "idle"
    BY <1>9, Shapes DEF WorkerOpen, WorkerWrite
  <2> QED BY <1>0, <2>1, LockQuiet
<1>10. CASE WorkerClose
  <2>1. /\ worker.at # "idle" /\ worker'.at = "idle" /\ emu' = emu
        /\ lock' = IF lock.depth = 1 THEN [owner |-> "none", depth |-> 0]
                   ELSE [lock EXCEPT !.depth = @ - 1]
    BY <1>10 DEF WorkerClose, Unlocked, Idle
  <2>2. lock \in [owner : {"none", "emu", "worker"}, depth : Nat]
    BY DEF StateOK, StoreOK
  <2> QED BY <1>0, <2>1, <2>2 DEF LockInv
<1>11. CASE WorkerFail
  <2>1. WritesFail /\ worker'.at = "idle" /\ UNCHANGED <<lock, emu>>
    BY <1>11 DEF WorkerFail, Idle
  <2> QED BY <1>0, <2>1 DEF LockInv
<1>12. CASE UNCHANGED vars
  BY <1>0, <1>12, LockQuiet DEF vars
<1> QED BY <1>1, <1>2, <1>3, <1>4, <1>5, <1>6, <1>7, <1>8, <1>9, <1>10, <1>11, <1>12
        DEF Next, Step, EmuStep, WorkerStep

-----------------------------------------------------------------------------
\* The order of the saves.

\* The elements of a sequence that grows at its end or loses its first.
LEMMA AppendElements ==
    ASSUME NEW S, NEW s \in Seq(S), NEW e \in S
    PROVE  /\ Len(s) \in Nat /\ Len(Append(s, e)) = Len(s) + 1
           /\ \A i \in 1 .. Len(s) : Append(s, e)[i] = s[i]
           /\ Append(s, e)[Len(s) + 1] = e
           /\ {Append(s, e)[i] : i \in 1 .. Len(Append(s, e))}
                = {s[i] : i \in 1 .. Len(s)} \cup {e}
<1>1. /\ Len(s) \in Nat /\ Len(Append(s, e)) = Len(s) + 1
      /\ \A i \in 1 .. Len(s) : Append(s, e)[i] = s[i]
      /\ Append(s, e)[Len(s) + 1] = e
  OBVIOUS
<1> DEFINE a == Append(s, e)
<1>2. /\ Len(s) \in Nat /\ Len(a) = Len(s) + 1
      /\ \A i \in 1 .. Len(s) : a[i] = s[i]
      /\ a[Len(s) + 1] = e
  BY <1>1
<1> HIDE DEF a
<1>3. \A i \in 1 .. Len(a) : i \in 1 .. Len(s) \/ i = Len(s) + 1
  BY <1>2
<1>4. \A i \in 1 .. Len(s) : i \in 1 .. Len(a)
  BY <1>2
<1>5. Len(s) + 1 \in 1 .. Len(a)
  BY <1>2
<1>6. {a[i] : i \in 1 .. Len(a)} = {s[i] : i \in 1 .. Len(s)} \cup {e}
  BY <1>2, <1>3, <1>4, <1>5
<1> QED BY <1>1, <1>6 DEF a

LEMMA TailElements ==
    ASSUME NEW S, NEW s \in Seq(S), s # <<>>
    PROVE  /\ Len(s) \in Nat \ {0} /\ Len(Tail(s)) = Len(s) - 1
           /\ Head(s) = s[1] /\ Head(s) \in S
           /\ \A i \in 1 .. Len(Tail(s)) :
                 i + 1 \in 2 .. Len(s) /\ Tail(s)[i] = s[i + 1]
           /\ {s[i] : i \in 1 .. Len(s)}
                = {Tail(s)[i] : i \in 1 .. Len(Tail(s))} \cup {Head(s)}
<1> DEFINE a == Tail(s)
           h == Head(s)
<1>1. /\ Len(s) \in Nat \ {0} /\ Len(a) = Len(s) - 1
      /\ h = s[1] /\ h \in S
      /\ \A i \in 1 .. Len(a) : i + 1 \in 2 .. Len(s) /\ a[i] = s[i + 1]
  OBVIOUS
<1> HIDE DEF a, h
<1>2. \A i \in 1 .. Len(s) : i = 1 \/ (i - 1 \in 1 .. Len(a) /\ a[i - 1] = s[i])
  BY <1>1
<1>3. \A i \in 1 .. Len(a) : i + 1 \in 1 .. Len(s)
  BY <1>1
<1>4. 1 \in 1 .. Len(s)
  BY <1>1
<1>5. {s[i] : i \in 1 .. Len(s)} = {a[i] : i \in 1 .. Len(a)} \cup {h}
  BY <1>1, <1>2, <1>3, <1>4
<1> QED BY <1>1, <1>5 DEF a, h

\* Steps that leave the files and the saves on their way alone.
LEMMA OrderQuiet ==
    ASSUME OrderInv, UNCHANGED <<files, queue, worker, saves, newest>>
    PROVE  OrderInv'
  BY DEF OrderInv, Queued

\* A native save queues an item newer than all others.
LEMMA NativeStep ==
    ASSUME StateOK, SaveNative, Path("m64p") \in NativeFiles
    PROVE  \E it \in Item :
              /\ it.file = Path("m64p") /\ it.n = saves + 1
              /\ Queued' = Queued \cup {it}
              /\ Len(queue) \in Nat /\ Len(queue') = Len(queue) + 1
              /\ \A i \in 1 .. Len(queue) : queue'[i] = queue[i]
              /\ queue'[Len(queue) + 1] = it
              /\ saves' = saves + 1 /\ files' = files
              /\ newest' = [newest EXCEPT ![TargetOf(it.file)] = saves + 1]
              /\ TargetOf(it.file) \in Targets
<1> DEFINE it == [file |-> Path("m64p"), n |-> saves + 1, id |-> job.id]
<1>1. /\ queue' = Append(queue, it) /\ saves' = saves + 1 /\ files' = files
      /\ newest' = [newest EXCEPT ![Target(job.fname)] = saves + 1]
  BY DEF SaveNative
<1>2. it \in Item
  BY PathFacts DEF Item, StateOK, StoreOK, MailboxOK
<1>3. TargetOf(it.file) = Target(job.fname) /\ Target(job.fname) \in Targets
  BY PathFacts
<1>4. it.file = Path("m64p") /\ it.n = saves + 1
  OBVIOUS
<1>5. queue \in Seq(Item)
  BY DEF StateOK, StoreOK
<1> HIDE DEF it
<1>6. /\ Len(queue) \in Nat /\ Len(queue') = Len(queue) + 1
      /\ \A i \in 1 .. Len(queue) : queue'[i] = queue[i]
      /\ queue'[Len(queue) + 1] = it
      /\ Queued' = Queued \cup {it}
  BY <1>1, <1>2, <1>5, AppendElements DEF Queued
<1> QED BY <1>1, <1>2, <1>3, <1>4, <1>6

\* The worker takes the oldest save.
LEMMA TakeStep ==
    ASSUME StateOK, OrderInv, WorkerTake
    PROVE  /\ worker.at = "idle" /\ worker'.at = "open" /\ worker'.item \in Queued
           /\ Queued = Queued' \cup {worker'.item}
           /\ \A it \in Queued' : worker'.item.n < it.n
           /\ \A i, j \in 1 .. Len(queue') : i < j => queue'[i].n < queue'[j].n
           /\ UNCHANGED <<files, saves, newest>>
<1>1. /\ worker = Idle /\ queue # <<>> /\ queue' = Tail(queue)
      /\ worker' = [at |-> "open", item |-> Head(queue)]
      /\ UNCHANGED <<files, saves, newest>>
  BY DEF WorkerTake, history
<1>2. queue \in Seq(Item)
  BY DEF StateOK, StoreOK
<1>3. /\ Len(queue) \in Nat \ {0} /\ Len(queue') = Len(queue) - 1
      /\ worker'.item = queue[1]
      /\ \A i \in 1 .. Len(queue') :
            i + 1 \in 2 .. Len(queue) /\ queue'[i] = queue[i + 1]
      /\ Queued = Queued' \cup {worker'.item}
  <2>1. /\ Len(queue) \in Nat \ {0} /\ Len(Tail(queue)) = Len(queue) - 1
        /\ Head(queue) = queue[1]
        /\ \A i \in 1 .. Len(Tail(queue)) :
              i + 1 \in 2 .. Len(queue) /\ Tail(queue)[i] = queue[i + 1]
        /\ {queue[i] : i \in 1 .. Len(queue)}
             = {Tail(queue)[i] : i \in 1 .. Len(Tail(queue))} \cup {Head(queue)}
    BY <1>1, <1>2, TailElements
  <2>2. worker'.item = Head(queue)
    BY <1>1
  <2>3. Queued' = {Tail(queue)[i] : i \in 1 .. Len(Tail(queue))}
    BY <1>1 DEF Queued
  <2>4. Queued = Queued' \cup {worker'.item}
    BY <2>1, <2>2, <2>3 DEF Queued
  <2> QED BY <1>1, <2>1, <2>2, <2>4
<1>4. worker.at = "idle" /\ worker'.at = "open"
  BY <1>1 DEF Idle
<1>5. \A i \in 2 .. Len(queue) : queue[1].n < queue[i].n
  BY <1>3 DEF OrderInv
<1>6. \A it \in Queued' : worker'.item.n < it.n
  BY <1>3, <1>5 DEF Queued
<1>7. ASSUME NEW i \in 1 .. Len(queue'), NEW j \in 1 .. Len(queue'), i < j
      PROVE  queue'[i].n < queue'[j].n
  <2>1. i + 1 \in 1 .. Len(queue) /\ j + 1 \in 1 .. Len(queue) /\ i + 1 < j + 1
    BY <1>3, <1>7
  <2> QED BY <1>3, <2>1 DEF OrderInv
<1> QED BY <1>1, <1>3, <1>4, <1>6, <1>7

\* A PJ64 state is written to a file that the worker never writes.
LEMMA Pj64Step ==
    ASSUME NamesKeepFormat, StateOK, MailInv, NEW type \in {"pj64_zip", "pj64_unc"},
           SavePj64(type),
           job.fname \in Names,
           job.fname \in SavedNames({"pj64_zip", "pj64_unc"}),
           Path(type) = <<-1, job.fname>>,
           Target(job.fname) = <<-1, job.fname>>
    PROVE  \E f \in Files \ NativeFiles :
              /\ f[1] = -1 /\ TargetOf(f) = f /\ f \in Targets
              /\ saves' = saves + 1 /\ queue' = queue
              /\ newest' = [newest EXCEPT ![f] = saves + 1]
              /\ \/ files' = [files EXCEPT ![f] = [type |-> type, id |-> saves + 1]]
                 \/ /\ WritesFail
                    /\ files' \in {files, [files EXCEPT ![f] =
                                      [type |-> "broken", id |-> saves + 1]]}
<1> DEFINE f == <<-1, job.fname>>
<1>1. f \in Files /\ TargetOf(f) = f /\ f[1] = -1
  BY FileFacts
<1>2. f \notin NativeFiles
  <2>1. job.fname \notin NativeNames
    BY DEF NamesKeepFormat
  <2>2. f \notin SlotFiles
    BY FileFacts DEF SlotFiles
  <2> QED BY <2>1, <2>2 DEF NativeFiles
<1>3. f \in Targets
  BY DEF Targets
<1>4. /\ saves' = saves + 1 /\ queue' = queue
      /\ newest' = [newest EXCEPT ![f] = saves + 1]
      /\ \/ files' = [files EXCEPT ![f] = [type |-> type, id |-> saves + 1]]
         \/ /\ WritesFail
            /\ files' \in {files, [files EXCEPT ![f] =
                              [type |-> "broken", id |-> saves + 1]]}
  BY DEF SavePj64
<1> HIDE DEF f
<1> QED BY <1>1, <1>2, <1>3, <1>4

\* The steps that change no file, no save on its way and no history of saves.
LEMMA QuietSteps ==
    ASSUME StateOK,
           \/ \E r \in Requests : SetJob(r) \/ SetJobFree(r)
           \/ SetJobKind \/ SetJobName
           \/ \E s \in Slots : SelectSlot(s)
           \/ LoadProbe \/ LoadLock \/ LoadRead \/ LoadOther \/ LoadAnswer
           \/ ClearJob \/ Stop \/ Execute \/ CoreShutdown
           \/ UNCHANGED vars
    PROVE  UNCHANGED <<files, queue, worker, saves, newest>>
<1>1. CASE LoadProbe \/ LoadLock \/ LoadRead \/ LoadOther \/ LoadAnswer
  BY <1>1, LoadAt
<1>2. CASE \/ \E r \in Requests : SetJob(r) \/ SetJobFree(r)
           \/ SetJobKind \/ SetJobName
           \/ \E s \in Slots : SelectSlot(s)
  BY <1>2 DEF SetJob, SetJobFree, SetJobKind, SetJobName, SelectSlot, history
<1>3. CASE ClearJob \/ Stop \/ Execute \/ CoreShutdown \/ UNCHANGED vars
  BY <1>3 DEF ClearJob, Stop, Execute, CoreShutdown, vars, history
<1> QED BY <1>1, <1>2, <1>3

LEMMA OrderStep ==
    ASSUME NamesKeepFormat, StateOK, StateOK', MailInv, OrderInv, [Next]_vars
    PROVE  OrderInv'
<1>0. /\ files \in [Files -> Content] /\ newest \in [Targets -> Nat] /\ saves \in Nat
      /\ \A it \in Queued : it \in Item
      /\ \A f \in Files : files[f].id \in Nat
  BY DEF StateOK, StoreOK, Queued, Content
<1>1. ASSUME SaveNative, Path("m64p") \in NativeFiles, worker' = worker
      PROVE  OrderInv'
  <2>1. PICK it \in Item :
           /\ it.file = Path("m64p") /\ it.n = saves + 1
           /\ Queued' = Queued \cup {it}
           /\ Len(queue) \in Nat /\ Len(queue') = Len(queue) + 1
           /\ \A i \in 1 .. Len(queue) : queue'[i] = queue[i]
           /\ queue'[Len(queue) + 1] = it
           /\ saves' = saves + 1 /\ files' = files
           /\ newest' = [newest EXCEPT ![TargetOf(it.file)] = saves + 1]
           /\ TargetOf(it.file) \in Targets
    BY <1>1, NativeStep
  <2>2. \A t \in Targets : \A n \in Nat :
           n <= saves /\ n <= newest[t] => n <= newest'[t]
    BY <1>0, <2>1
  <2>3. ASSUME NEW i \in 1 .. Len(queue'), NEW j \in 1 .. Len(queue'), i < j
        PROVE  queue'[i].n < queue'[j].n
    <3>1. i \in 1 .. Len(queue)
      BY <2>1, <2>3
    <3>2. queue[i] \in Queued /\ queue[i].n \in Nat
      BY <1>0, <3>1 DEF Queued, Item
    <3>3. queue[i].n <= saves
      BY <3>2 DEF OrderInv
    <3>4. CASE j \in 1 .. Len(queue)
      BY <2>1, <2>3, <3>1, <3>4 DEF OrderInv
    <3>5. CASE j = Len(queue) + 1
      BY <1>0, <2>1, <3>1, <3>2, <3>3, <3>5
    <3> QED BY <2>1, <3>4, <3>5
  <2>4. ASSUME NEW x \in Queued'
        PROVE  /\ x.file \in NativeFiles
               /\ x.n <= saves'
               /\ files'[x.file].id < x.n
               /\ x.n <= newest'[TargetOf(x.file)]
    <3>1. CASE x \in Queued
      <4>1. x.n \in Nat /\ x.file \in Files /\ x.n <= saves
        BY <1>0, <3>1 DEF Item, OrderInv
      <4>2. TargetOf(x.file) \in Targets
        BY <4>1, FileFacts
      <4>3. x.n <= newest[TargetOf(x.file)]
        BY <3>1 DEF OrderInv
      <4>4. x.n <= newest'[TargetOf(x.file)]
        BY <2>2, <4>1, <4>2, <4>3
      <4> QED BY <1>0, <2>1, <3>1, <4>1, <4>4 DEF OrderInv
    <3>2. CASE x = it
      <4>1. x.file \in NativeFiles /\ x.file \in Files
        BY <1>1, <2>1, <3>2, FileFacts
      <4>2. files[x.file].id <= saves
        BY <4>1 DEF OrderInv
      <4>3. newest'[TargetOf(x.file)] = saves + 1
        BY <1>0, <2>1, <3>2
      <4> QED BY <1>0, <2>1, <3>2, <4>1, <4>2, <4>3
    <3> QED BY <2>1, <2>4, <3>1, <3>2
  <2>5. ASSUME worker'.at # "idle"
        PROVE  /\ worker'.item.file \in NativeFiles
               /\ worker'.item.n <= saves'
               /\ \A x \in Queued' : worker'.item.n < x.n
               /\ worker'.item.n <= newest'[TargetOf(worker'.item.file)]
               /\ worker'.at = "open" =>
                     files'[worker'.item.file].id < worker'.item.n
               /\ worker'.at # "open" =>
                     files'[worker'.item.file].id = worker'.item.n
    <3>1. worker.item \in Item /\ worker.at # "idle"
      BY <1>1, <2>5, Shapes
    <3>2. worker.item.n \in Nat /\ worker.item.file \in Files
      BY <3>1 DEF Item
    <3>3. /\ worker.item.file \in NativeFiles
          /\ worker.item.n <= saves
          /\ \A x \in Queued : worker.item.n < x.n
          /\ worker.item.n <= newest[TargetOf(worker.item.file)]
          /\ worker.at = "open" => files[worker.item.file].id < worker.item.n
          /\ worker.at # "open" => files[worker.item.file].id = worker.item.n
      BY <3>1 DEF OrderInv
    <3>4. worker.item.n <= newest'[TargetOf(worker.item.file)]
      BY <2>2, <3>2, <3>3, FileFacts
    <3>5. \A x \in Queued' : worker.item.n < x.n
      BY <1>0, <2>1, <3>2, <3>3
    <3> QED BY <1>0, <1>1, <2>1, <3>2, <3>3, <3>4, <3>5
  <2>6. \A f \in Files : files'[f].id <= saves'
    BY <1>0, <2>1 DEF OrderInv
  <2> QED BY <2>3, <2>4, <2>5, <2>6 DEF OrderInv
<1>2. ASSUME NEW type \in {"pj64_zip", "pj64_unc"}, SavePj64(type),
             job.fname \in Names,
             job.fname \in SavedNames({"pj64_zip", "pj64_unc"}),
             Path(type) = <<-1, job.fname>>,
             Target(job.fname) = <<-1, job.fname>>, worker' = worker
      PROVE  OrderInv'
  <2>1. PICK f \in Files \ NativeFiles :
           /\ f[1] = -1 /\ TargetOf(f) = f /\ f \in Targets
           /\ saves' = saves + 1 /\ queue' = queue
           /\ newest' = [newest EXCEPT ![f] = saves + 1]
           /\ \/ files' = [files EXCEPT ![f] = [type |-> type, id |-> saves + 1]]
              \/ /\ WritesFail
                 /\ files' \in {files, [files EXCEPT ![f] =
                                   [type |-> "broken", id |-> saves + 1]]}
    BY <1>2, Pj64Step
  <2>2. \A g \in Files : /\ g # f => files'[g] = files[g]
                         /\ files'[g].id \in {files[g].id, saves + 1}
    BY <1>0, <2>1
  <2>3. \A g \in NativeFiles : g \in Files /\ files'[g] = files[g]
    BY <2>1, <2>2, FileFacts
  <2>4. \A t \in Targets : \A n \in Nat :
           n <= saves /\ n <= newest[t] => n <= newest'[t]
    BY <1>0, <2>1
  <2>5. Queued' = Queued
    BY <2>1 DEF Queued
  <2>6. ASSUME NEW x \in Queued
        PROVE  /\ x.file \in NativeFiles
               /\ x.n <= saves'
               /\ files'[x.file].id < x.n
               /\ x.n <= newest'[TargetOf(x.file)]
    <3>1. /\ x.n \in Nat /\ x.file \in NativeFiles /\ x.n <= saves
          /\ files[x.file].id < x.n /\ x.n <= newest[TargetOf(x.file)]
      BY <1>0, <2>6 DEF Item, OrderInv
    <3>2. TargetOf(x.file) \in Targets
      BY <3>1, FileFacts
    <3> QED BY <1>0, <2>1, <2>3, <2>4, <3>1, <3>2
  <2>7. ASSUME worker.at # "idle"
        PROVE  /\ worker.item.n <= saves'
               /\ worker.item.n <= newest'[TargetOf(worker.item.file)]
               /\ files'[worker.item.file] = files[worker.item.file]
    <3>1. /\ worker.item.n \in Nat /\ worker.item.file \in NativeFiles
          /\ worker.item.n <= saves
          /\ worker.item.n <= newest[TargetOf(worker.item.file)]
      BY <2>7, Shapes DEF Item, OrderInv
    <3>2. TargetOf(worker.item.file) \in Targets
      BY <3>1, FileFacts
    <3> QED BY <1>0, <2>1, <2>3, <2>4, <3>1, <3>2
  <2>8. \A g \in Files : files'[g].id <= saves'
    BY <1>0, <2>1, <2>2 DEF OrderInv
  <2> QED BY <1>2, <2>1, <2>5, <2>6, <2>7, <2>8 DEF OrderInv
<1>3. CASE Save
  <2>1. CASE SaveNoMemory
    BY <1>3, <2>1, SaveCases, OrderQuiet DEF SaveNoMemory
  <2> QED BY <1>1, <1>2, <1>3, <2>1, SaveCases
<1>4. CASE WorkerTake
  <2>1. /\ worker.at = "idle" /\ worker'.at = "open" /\ worker'.item \in Queued
        /\ Queued = Queued' \cup {worker'.item}
        /\ \A it \in Queued' : worker'.item.n < it.n
        /\ \A i, j \in 1 .. Len(queue') : i < j => queue'[i].n < queue'[j].n
        /\ UNCHANGED <<files, saves, newest>>
    BY <1>4, TakeStep
  <2> QED BY <2>1 DEF OrderInv
<1>5. CASE WorkerOpen
  <2>1. /\ worker.at = "open" /\ worker.item \in Item
        /\ files' = [files EXCEPT ![worker.item.file] =
                        [type |-> "empty", id |-> worker.item.n]]
        /\ worker'.at = "write" /\ worker'.item = worker.item
        /\ UNCHANGED <<queue, saves, newest>>
    BY <1>5, Shapes DEF WorkerOpen, history
  <2>2. PICK it \in Item : it = worker.item
    BY <2>1
  <2>3. /\ it.file \in NativeFiles /\ it.n <= saves /\ it.file \in Files
        /\ \A x \in Queued : it.n < x.n
        /\ it.n <= newest[TargetOf(it.file)]
    BY <2>1, <2>2 DEF OrderInv, Item
  <2>4. /\ files'[it.file].id = it.n
        /\ \A g \in Files : g # it.file => files'[g] = files[g]
    BY <1>0, <2>1, <2>2, <2>3
  <2>5. Queued' = Queued
    BY <2>1 DEF Queued
  <2>6. \A x \in Queued : files'[x.file].id < x.n
    BY <1>0, <2>3, <2>4 DEF OrderInv, Item
  <2>7. \A g \in Files : files'[g].id <= saves
    BY <2>3, <2>4 DEF OrderInv
  <2> QED BY <2>1, <2>2, <2>3, <2>4, <2>5, <2>6, <2>7 DEF OrderInv
<1>6. CASE WorkerWrite
  <2>1. /\ worker.at = "write" /\ worker.item \in Item
        /\ files' = [files EXCEPT ![worker.item.file].type = "partial"]
        /\ worker'.at = "close" /\ worker'.item = worker.item
        /\ UNCHANGED <<queue, saves, newest>>
    BY <1>6, Shapes DEF WorkerWrite, history
  <2>2. \A g \in Files : files'[g].id = files[g].id
    BY <1>0, <2>1 DEF Item, Content
  <2>3. Queued' = Queued
    BY <2>1 DEF Queued
  <2>4. worker.item.file \in Files /\ \A x \in Queued : x.file \in Files
    BY <1>0, <2>1 DEF Item
  <2> QED BY <2>1, <2>2, <2>3, <2>4 DEF OrderInv
<1>7. CASE WorkerClose \/ WorkerFail
  <2>1. worker'.at = "idle" /\ UNCHANGED <<queue, saves, newest>>
    BY <1>7 DEF WorkerClose, WorkerFail, Idle
  <2>2. \A g \in Files : files'[g].id = files[g].id
    BY <1>0, <1>7 DEF WorkerClose, WorkerFail, Content
  <2>3. Queued' = Queued
    BY <2>1 DEF Queued
  <2>4. \A x \in Queued : x.file \in Files
    BY <1>0 DEF Item
  <2> QED BY <2>1, <2>2, <2>3, <2>4 DEF OrderInv
<1> QED BY <1>3, <1>4, <1>5, <1>6, <1>7, OrderQuiet, QuietSteps
        DEF Next, Step, EmuStep, WorkerStep

-----------------------------------------------------------------------------
\* What the files hold.

LEMMA FileStep ==
    ASSUME NamesKeepFormat, StateOK, StateOK', MailInv, OrderInv, FileInv, [Next]_vars
    PROVE  FileInv'
<1>0. /\ files \in [Files -> Content] /\ WritesFail' = WritesFail
      /\ \A f \in Files : files[f].type \in Contents
  BY DEF StateOK, StoreOK, Content, Next, vars, WritesFail
<1>1. ASSUME UNCHANGED <<files, worker>> PROVE FileInv'
  BY <1>0, <1>1 DEF FileInv
<1>2. CASE Save
  <2>1. CASE SaveNative \/ SaveNoMemory
    BY <1>1, <1>2, <2>1, SaveCases DEF SaveNative, SaveNoMemory
  <2>2. ASSUME NEW type \in {"pj64_zip", "pj64_unc"}, SavePj64(type),
               job.fname \in Names,
               job.fname \in SavedNames({"pj64_zip", "pj64_unc"}),
               Path(type) = <<-1, job.fname>>,
               Target(job.fname) = <<-1, job.fname>>, ~WritesFail
        PROVE  FileInv'
    <3>1. PICK f \in Files \ NativeFiles :
             files' = [files EXCEPT ![f] = [type |-> type, id |-> saves + 1]]
      BY <2>2, Pj64Step
    <3>2. /\ files'[f].type = type /\ worker' = worker
          /\ \A g \in Files : g # f => files'[g] = files[g]
      BY <1>0, <1>2, <3>1, SaveCases
    <3>3. worker.at # "idle" => worker.item.file \in NativeFiles
      BY DEF OrderInv
    <3>4. SlotFiles \subseteq NativeFiles /\ NativeFiles \subseteq Files
      BY FileFacts DEF NativeFiles
    <3>5. \A g \in Files : files'[g].type \in {"empty", "partial", "broken"} =>
             worker.at \in {"write", "close"} /\ worker.item.file = g
      BY <2>2, <3>2 DEF FileInv
    <3>6. /\ worker.at = "write" => files'[worker.item.file].type = "empty"
          /\ worker.at = "close" => files'[worker.item.file].type = "partial"
      BY <2>2, <3>1, <3>2, <3>3, <3>4 DEF FileInv
    <3>7. \A g \in SlotFiles : files'[g].type \notin {"pj64_zip", "pj64_unc"}
      BY <2>2, <3>1, <3>2, <3>4 DEF FileInv
    <3> QED BY <3>2, <3>5, <3>6, <3>7 DEF FileInv
  <2>3. CASE WritesFail
    BY <1>0, <2>3 DEF FileInv
  <2> QED BY <1>2, <2>1, <2>2, <2>3, SaveCases
<1>3. CASE WorkerTake
  <2>1. worker.at = "idle" /\ worker'.at = "open" /\ files' = files
    BY <1>3 DEF WorkerTake, Idle
  <2> QED BY <1>0, <2>1 DEF FileInv
<1>4. CASE WorkerOpen
  <2>1. /\ worker.at = "open" /\ worker.item \in Item
        /\ files' = [files EXCEPT ![worker.item.file] =
                        [type |-> "empty", id |-> worker.item.n]]
        /\ worker'.at = "write" /\ worker'.item = worker.item
    BY <1>4, Shapes DEF WorkerOpen
  <2>2. PICK f \in Files : f = worker.item.file
    BY <2>1 DEF Item
  <2>3. /\ files'[f].type = "empty"
        /\ \A g \in Files : g # f => files'[g] = files[g]
    BY <1>0, <2>1, <2>2
  <2> QED BY <1>0, <2>1, <2>2, <2>3, FileFacts DEF FileInv
<1>5. CASE WorkerWrite
  <2>1. /\ worker.at = "write" /\ worker.item \in Item
        /\ files' = [files EXCEPT ![worker.item.file].type = "partial"]
        /\ worker'.at = "close" /\ worker'.item = worker.item
    BY <1>5, Shapes DEF WorkerWrite
  <2>2. PICK f \in Files : f = worker.item.file
    BY <2>1 DEF Item
  <2>3. /\ files'[f].type = "partial"
        /\ \A g \in Files : g # f => files'[g] = files[g]
    BY <1>0, <2>1, <2>2 DEF Content
  <2> QED BY <1>0, <2>1, <2>2, <2>3, FileFacts DEF FileInv
<1>6. CASE WorkerClose
  <2>1. CASE WritesFail
    BY <1>0, <2>1 DEF FileInv
  <2>2. CASE ~WritesFail
    <3>1. /\ worker.at = "close" /\ worker.item \in Item
          /\ files' = [files EXCEPT ![worker.item.file].type = "m64p"]
          /\ worker'.at = "idle"
      BY <1>6, <2>2, Shapes DEF WorkerClose, Idle
    <3>2. PICK f \in Files : f = worker.item.file
      BY <3>1 DEF Item
    <3>3. /\ files'[f].type = "m64p"
          /\ \A g \in Files : g # f => files'[g] = files[g]
      BY <1>0, <3>1, <3>2 DEF Content
    <3> QED BY <1>0, <3>1, <3>2, <3>3, FileFacts DEF FileInv
  <2> QED BY <2>1, <2>2
<1>7. CASE WorkerFail
  BY <1>0, <1>7 DEF WorkerFail, FileInv
<1> QED BY <1>1, <1>2, <1>3, <1>4, <1>5, <1>6, <1>7, QuietSteps
        DEF Next, Step, EmuStep, WorkerStep

\* A save that is on its way, or complete in a file that the step leaves alone,
\* stays kept.
LEMMA KeptStep ==
    ASSUME NamesKeepFormat, StateOK, StateOK', MailInv, OrderInv, FileInv, KeptInv,
           [Next]_vars
    PROVE  KeptInv'
<1>0. /\ files \in [Files -> Content] /\ newest \in [Targets -> Nat] /\ saves \in Nat
      /\ WritesFail' = WritesFail
      /\ \A it \in Queued : it \in Item
  BY DEF StateOK, StoreOK, Next, vars, WritesFail, Queued
<1> SUFFICES ASSUME ~WritesFail PROVE KeptInv'
  BY <1>0 DEF KeptInv
<1>1. ASSUME UNCHANGED <<files, queue, worker, newest>> PROVE KeptInv'
  BY <1>1 DEF KeptInv, Kept, Queued
<1>2. ASSUME SaveNative, Path("m64p") \in NativeFiles, worker' = worker
      PROVE  KeptInv'
  <2>1. PICK it \in Item :
           /\ it.file = Path("m64p") /\ it.n = saves + 1
           /\ Queued' = Queued \cup {it} /\ files' = files
           /\ newest' = [newest EXCEPT ![TargetOf(it.file)] = saves + 1]
           /\ TargetOf(it.file) \in Targets
    BY <1>2, NativeStep
  <2>2. it.file \in Files /\ (it.file[1] # -1 => it.file \in SlotFiles)
    BY <1>2, <2>1, FileFacts DEF NativeFiles
  <2>3. ASSUME NEW t \in Targets, newest'[t] # 0 PROVE Kept(t)'
    <3>1. CASE t = TargetOf(it.file)
      <4>1. newest'[t] = it.n
        BY <1>0, <2>1, <3>1
      <4> QED BY <2>1, <2>2, <3>1, <4>1 DEF Kept
    <3>2. CASE t # TargetOf(it.file)
      <4>1. newest'[t] = newest[t]
        BY <1>0, <2>1, <3>2
      <4>2. Kept(t)
        BY <2>3, <4>1 DEF KeptInv
      <4> QED BY <1>2, <2>1, <4>1, <4>2 DEF Kept
    <3> QED BY <3>1, <3>2
  <2> QED BY <2>3 DEF KeptInv
<1>3. ASSUME NEW type \in {"pj64_zip", "pj64_unc"}, SavePj64(type),
             job.fname \in Names,
             job.fname \in SavedNames({"pj64_zip", "pj64_unc"}),
             Path(type) = <<-1, job.fname>>,
             Target(job.fname) = <<-1, job.fname>>, worker' = worker
      PROVE  KeptInv'
  <2>1. PICK f \in Files \ NativeFiles :
           /\ f[1] = -1 /\ TargetOf(f) = f /\ f \in Targets
           /\ saves' = saves + 1 /\ queue' = queue
           /\ newest' = [newest EXCEPT ![f] = saves + 1]
           /\ files' = [files EXCEPT ![f] = [type |-> type, id |-> saves + 1]]
    BY <1>3, Pj64Step
  <2>2. /\ files'[f].type = type /\ files'[f].id = saves + 1
        /\ \A g \in Files : g # f => files'[g] = files[g]
    BY <1>0, <2>1
  <2>3. Queued' = Queued
    BY <2>1 DEF Queued
  <2>4. ASSUME NEW t \in Targets, newest'[t] # 0 PROVE Kept(t)'
    <3>1. CASE t = f
      <4>1. newest'[t] = saves + 1 /\ type \in Types
        BY <1>0, <2>1, <3>1 DEF Types
      <4> QED BY <2>1, <2>2, <3>1, <4>1 DEF Kept
    <3>2. CASE t # f
      <4>1. newest'[t] = newest[t]
        BY <1>0, <2>1, <3>2
      <4>2. PICK g \in Files :
               /\ TargetOf(g) = t
               /\ g[1] # -1 => g \in SlotFiles
               /\ \/ files[g].type \in Types /\ files[g].id = newest[t]
                  \/ \E it \in Queued : it.file = g /\ it.n = newest[t]
                  \/ worker.at # "idle" /\ worker.item.file = g /\ worker.item.n = newest[t]
        BY <2>4, <4>1 DEF KeptInv, Kept
      <4>3. g # f
        BY <2>1, <3>2, <4>2
      <4> QED BY <1>3, <2>2, <2>3, <4>1, <4>2, <4>3 DEF Kept
    <3> QED BY <3>1, <3>2
  <2> QED BY <2>4 DEF KeptInv
<1>4. CASE Save
  <2>1. CASE SaveNoMemory
    BY <1>1, <1>4, <2>1, SaveCases DEF SaveNoMemory
  <2> QED BY <1>2, <1>3, <1>4, <2>1, SaveCases
<1>5. CASE WorkerTake
  <2>1. /\ worker.at = "idle" /\ worker'.at = "open"
        /\ Queued = Queued' \cup {worker'.item}
        /\ UNCHANGED <<files, saves, newest>>
    BY <1>5, TakeStep
  <2> QED BY <2>1 DEF KeptInv, Kept
<1>6. CASE WorkerOpen
  <2>1. /\ worker.at = "open" /\ worker.item \in Item
        /\ files' = [files EXCEPT ![worker.item.file] =
                        [type |-> "empty", id |-> worker.item.n]]
        /\ worker'.at = "write" /\ worker'.item = worker.item
        /\ UNCHANGED <<queue, newest>>
    BY <1>6, Shapes DEF WorkerOpen, history
  <2>2. PICK f \in Files : f = worker.item.file
    BY <2>1 DEF Item
  <2>3. \A g \in Files : g # f => files'[g] = files[g]
    BY <1>0, <2>1, <2>2
  <2>4. Queued' = Queued
    BY <2>1 DEF Queued
  <2>5. /\ files[f].id < worker.item.n /\ worker.item.n <= newest[TargetOf(f)]
        /\ worker.item.n \in Nat /\ files[f].id \in Nat /\ newest[TargetOf(f)] \in Nat
    BY <1>0, <2>1, <2>2, FileFacts DEF OrderInv, Item, Content
  <2>6. files[f].id # newest[TargetOf(f)]
    BY <2>5
  <2>7. ASSUME NEW t \in Targets, newest'[t] # 0 PROVE Kept(t)'
    <3>1. PICK g \in Files :
             /\ TargetOf(g) = t
             /\ g[1] # -1 => g \in SlotFiles
             /\ \/ files[g].type \in Types /\ files[g].id = newest[t]
                \/ \E it \in Queued : it.file = g /\ it.n = newest[t]
                \/ worker.at # "idle" /\ worker.item.file = g /\ worker.item.n = newest[t]
      BY <2>1, <2>7 DEF KeptInv, Kept
    <3>2. files[g].id = newest[t] => g # f
      BY <2>6, <3>1
    <3> QED BY <2>1, <2>3, <2>4, <3>1, <3>2 DEF Kept
  <2> QED BY <2>7 DEF KeptInv
<1>7. CASE WorkerWrite
  <2>1. /\ worker.at = "write" /\ worker.item \in Item
        /\ files' = [files EXCEPT ![worker.item.file].type = "partial"]
        /\ worker'.at = "close" /\ worker'.item = worker.item
        /\ UNCHANGED <<queue, newest>>
    BY <1>7, Shapes DEF WorkerWrite, history
  <2>2. PICK f \in Files : f = worker.item.file
    BY <2>1 DEF Item
  <2>3. \A g \in Files : g # f => files'[g] = files[g]
    BY <1>0, <2>1, <2>2
  <2>4. Queued' = Queued
    BY <2>1 DEF Queued
  <2>5. files[f].type \notin Types
    BY <2>1, <2>2 DEF FileInv, Types
  <2>6. ASSUME NEW t \in Targets, newest'[t] # 0 PROVE Kept(t)'
    <3>1. PICK g \in Files :
             /\ TargetOf(g) = t
             /\ g[1] # -1 => g \in SlotFiles
             /\ \/ files[g].type \in Types /\ files[g].id = newest[t]
                \/ \E it \in Queued : it.file = g /\ it.n = newest[t]
                \/ worker.at # "idle" /\ worker.item.file = g /\ worker.item.n = newest[t]
      BY <2>1, <2>6 DEF KeptInv, Kept
    <3> QED BY <2>1, <2>3, <2>4, <2>5, <3>1 DEF Kept
  <2> QED BY <2>6 DEF KeptInv
<1>8. CASE WorkerClose
  <2>1. /\ worker.at = "close" /\ worker.item \in Item
        /\ files' = [files EXCEPT ![worker.item.file].type = "m64p"]
        /\ worker'.at = "idle"
        /\ UNCHANGED <<queue, newest>>
    BY <1>8, Shapes DEF WorkerClose, Idle
  <2>2. PICK f \in Files : f = worker.item.file
    BY <2>1 DEF Item
  <2>3. /\ \A g \in Files : g # f => files'[g] = files[g]
        /\ files'[f].type = "m64p" /\ files'[f].id = files[f].id
    BY <1>0, <2>1, <2>2 DEF Content
  <2>4. files[f].id = worker.item.n
    BY <2>1, <2>2 DEF OrderInv
  <2>5. Queued' = Queued
    BY <2>1 DEF Queued
  <2>6. ASSUME NEW t \in Targets, newest'[t] # 0 PROVE Kept(t)'
    <3>1. PICK g \in Files :
             /\ TargetOf(g) = t
             /\ g[1] # -1 => g \in SlotFiles
             /\ \/ files[g].type \in Types /\ files[g].id = newest[t]
                \/ \E it \in Queued : it.file = g /\ it.n = newest[t]
                \/ worker.at # "idle" /\ worker.item.file = g /\ worker.item.n = newest[t]
      BY <2>1, <2>6 DEF KeptInv, Kept
    <3>2. "m64p" \in Types
      BY DEF Types
    <3> QED BY <2>1, <2>2, <2>3, <2>4, <2>5, <3>1, <3>2 DEF Kept
  <2> QED BY <2>6 DEF KeptInv
<1>9. CASE WorkerFail
  BY <1>9 DEF WorkerFail
<1> QED BY <1>1, <1>4, <1>5, <1>6, <1>7, <1>8, <1>9, QuietSteps
        DEF Next, Step, EmuStep, WorkerStep

-----------------------------------------------------------------------------
\* Shutdown and loads.

LEMMA DownStep ==
    ASSUME StateOK, MailInv, DownInv, [Next]_vars
    PROVE  DownInv'
<1>1. CASE \/ \E r \in Requests : SetJob(r) \/ SetJobFree(r)
           \/ SetJobKind \/ SetJobName
           \/ \E s \in Slots : SelectSlot(s)
           \/ UNCHANGED vars
  BY <1>1 DEF SetJob, SetJobFree, SetJobKind, SetJobName, SelectSlot, vars, DownInv,
              Clean, history
<1>2. CASE LoadProbe \/ LoadLock \/ LoadRead \/ LoadOther \/ LoadAnswer
  <2>1. emu.at # "off" /\ phase' = phase
    BY <1>2, LoadAt DEF LoadProbe, LoadLock, LoadRead, LoadOther, LoadAnswer
  <2> QED BY <2>1 DEF DownInv
<1>3. CASE Save
  <2>1. emu.at = "run" /\ phase' = phase
    BY <1>3, SaveCases
  <2> QED BY <2>1 DEF DownInv
<1>4. CASE ClearJob \/ Stop \/ Execute
  <2>1. phase' = phase /\ (phase = "up" \/ emu.at # "off")
    BY <1>4 DEF ClearJob, Stop, Execute
  <2> QED BY <2>1 DEF DownInv
<1>5. CASE CoreShutdown
  BY <1>5 DEF CoreShutdown, DownInv, Clean
<1>6. CASE WorkerStep
  <2>1. phase' = phase /\ ~Clean
    BY <1>6 DEF WorkerStep, WorkerTake, WorkerOpen, WorkerWrite, WorkerClose,
                WorkerFail, Clean, Idle
  <2> QED BY <2>1 DEF DownInv
<1> QED BY <1>1, <1>2, <1>3, <1>4, <1>5, <1>6 DEF Next, Step, EmuStep

\* savestates_load looks for the file of a slot or name and finds the newest
\* save, if no save is on its way.
LEMMA ProbeStep ==
    ASSUME StateOK, MailInv, FileInv, KeptInv, LoadProbe, ~WritesFail, ~OtherThread
    PROVE  /\ emu'.at \in {"dispatch", "answer"} /\ emu'.ret = FALSE
           /\ NativeThere' => /\ emu'.at = "dispatch" /\ emu'.file \in SlotFiles
                              /\ files[emu'.file].type # "missing"
                              /\ job'.type = "m64p"
           /\ (emu'.clean /\ emu'.want # 0 /\ emu'.file \notin Slots \X {"old"}) =>
                 /\ Clean /\ emu'.at = "dispatch"
                 /\ files[emu'.file] = [type |-> job'.type, id |-> emu'.want]
<1> DEFINE types == {t \in {"m64p", "pj64_zip", "pj64_unc"} : Exists(Path(t))}
           type  == IF job.fname # NoName
                    THEN IF job.type = "unknown" THEN DetectType(Path("m64p"))
                         ELSE job.type
                    ELSE CASE "m64p" \in types -> "m64p"
                           [] "m64p" \notin types /\ "pj64_zip" \in types -> "pj64_zip"
                           [] types = {"pj64_unc"} -> "pj64_unc"
                           [] OTHER -> "unknown"
           found == IF job.fname # NoName THEN Exists(Path(type)) ELSE types # {}
           want  == newest[Target(job.fname)]
<1>1. /\ emu.at = "run" /\ job.kind = "load"
      /\ job' = [job EXCEPT !.type = type]
      /\ emu' = [at    |-> IF found THEN "dispatch" ELSE "answer",
                 id    |-> job.id,
                 file  |-> IF found THEN Path(type) ELSE <<slot, "m64p">>,
                 native |-> NativeNamesOf(job.fname),
                 clean |-> Clean,
                 want  |-> newest[Target(job.fname)],
                 got   |-> Missing,
                 ret   |-> FALSE]
  BY DEF LoadProbe
<1>2. /\ files \in [Files -> Content] /\ slot \in Slots
      /\ job.fname \in Names \cup {NoName}
      /\ job'.type = type
  BY <1>1 DEF StateOK, StoreOK, MailboxOK
<1>3. Target(job.fname) \in Targets /\ Path("m64p") \in Files
  BY PathFacts
<1>4. job.fname = NoName /\ type = "m64p" =>
         found /\ Path(type) \in SlotFiles /\ files[Path(type)].type # "missing"
  <2>1. SUFFICES ASSUME job.fname = NoName, type = "m64p"
                 PROVE  "m64p" \in types /\ Path("m64p") \in SlotFiles
    BY DEF Exists
  <2>2. "m64p" \in types
    BY <2>1
  <2> QED BY <2>1, <2>2, PathFacts
<1>5. ASSUME Clean, want # 0, job.fname # NoName
      PROVE  /\ found /\ files[Path(type)].type = type
             /\ files[Path(type)].id = want
  <2> DEFINE g == <<-1, job.fname>>
  <2>1. job.type = "unknown"
    <3>1. [kind |-> job.kind, type |-> job.type, fname |-> job.fname] \in Requests
      BY <1>1, <1>5 DEF MailInv
    <3>2. \A r \in Requests : r.kind = "load" /\ r.fname # NoName => r.type = "unknown"
      BY SavestatesAssumption
    <3> QED BY <1>1, <1>5, <3>1, <3>2
  <2>2. /\ \A t : Path(t) = g
        /\ Target(job.fname) = g /\ g \in Files
    BY <1>2, <1>5, PathFacts, FileFacts DEF Target
  <2>3. PICK f \in Files :
           /\ TargetOf(f) = g /\ (f[1] # -1 => f \in SlotFiles)
           /\ files[f].type \in Types /\ files[f].id = want
    BY <1>3, <1>5, <2>2, Shapes DEF KeptInv, Kept, Clean, Queued
  <2>4. f = g
    <3>1. f[1] = -1
      BY <2>3, FileFacts DEF TargetOf, Files
    <3> QED BY <2>3, <3>1 DEF TargetOf
  <2>5. files[g].type \in {"m64p", "pj64_zip", "pj64_unc"} /\ files[g].id = want
    BY <1>2, <2>2, <2>3, <2>4 DEF Types, Content, Contents
  <2>6. type = files[g].type
    BY <1>5, <2>1, <2>2, <2>5 DEF DetectType
  <2>7. found
    BY <1>5, <2>2, <2>5 DEF Exists
  <2> QED BY <2>2, <2>5, <2>6, <2>7
<1>6. ASSUME Clean, want # 0, job.fname = NoName,
             files[<<slot, "old">>].type = "missing"
      PROVE  /\ found /\ files[Path(type)].type = type
             /\ files[Path(type)].id = want
  <2> DEFINE g == <<slot, "m64p">>
  <2>1. Target(job.fname) = <<slot, "slot">> /\ g \in SlotFiles /\ g \in Files
    BY <1>2, <1>6, FileFacts DEF Target
  <2>2. PICK f \in Files :
           /\ TargetOf(f) = <<slot, "slot">> /\ (f[1] # -1 => f \in SlotFiles)
           /\ files[f].type \in Types /\ files[f].id = want
    BY <1>3, <1>6, <2>1, Shapes DEF KeptInv, Kept, Clean, Queued
  <2>3. f[1] = slot /\ f \in SlotFiles
    BY <1>2, <2>2, FileFacts DEF TargetOf
  <2>4. f = g
    BY <1>6, <2>2, <2>3 DEF SlotFiles, Types
  <2>5. files[g].type = "m64p" /\ files[g].id = want
    BY <1>2, <2>1, <2>2, <2>4 DEF FileInv, Types, Content, Contents
  <2>6. Path("m64p") = g
    BY <1>6 DEF Path, SlotPath
  <2>7. "m64p" \in types
    BY <2>5, <2>6 DEF Exists
  <2>8. type = "m64p"
    BY <1>6, <2>7
  <2> QED BY <1>6, <2>5, <2>6, <2>7, <2>8
<1>7. ASSUME Clean, job.fname = NoName, files[<<slot, "old">>].type # "missing"
      PROVE  found /\ Path(type) \in Slots \X {"old"}
  <2>1. <<slot, "old">> \in Files /\ <<slot, "old">> \in Slots \X {"old"}
    BY <1>2, FileFacts
  <2>2. files[<<slot, "old">>].type # "empty"
    BY <1>7, <2>1 DEF FileInv, Clean, Idle
  <2>3. Path("m64p") = <<slot, "old">>
    BY <1>7, <2>2 DEF Path, SlotPath
  <2>4. "m64p" \in types
    BY <1>7, <2>3 DEF Exists
  <2>5. type = "m64p"
    BY <1>7, <2>4
  <2> QED BY <1>7, <2>1, <2>3, <2>4, <2>5
<1>8. found => Path(type) \in Files
  <2>1. CASE job.fname # NoName
    BY <2>1, PathFacts
  <2>2. CASE job.fname = NoName
    <3>1. found => type \in {"m64p", "pj64_zip", "pj64_unc"}
      BY <2>2
    <3> QED BY <3>1, PathFacts
  <2> QED BY <2>1, <2>2
<1>11. NativeThere' => job.fname = NoName /\ type = "m64p"
  <2> SUFFICES ASSUME NativeThere' PROVE job.fname = NoName /\ type = "m64p"
    OBVIOUS
  <2>1. emu'.native = NativeNamesOf(job.fname) /\ emu'.clean = Clean
    BY <1>1
  <2>2. job.fname = NoName /\ (Exists(<<slot, "m64p">>) \/ (Exists(<<slot, "old">>) /\ Clean))
    BY <2>1 DEF NativeThere, NativeNamesOf
  <2>3. Path("m64p") = <<slot, "old">> => Exists(<<slot, "old">>)
    BY <2>2 DEF Path, SlotPath, Exists
  <2>4. Path("m64p") \in {<<slot, "old">>, <<slot, "m64p">>}
    BY <2>2 DEF Path, SlotPath
  <2>5. Exists(<<slot, "old">>) /\ Clean => Path("m64p") = <<slot, "old">>
    <3>1. <<slot, "old">> \in Files
      BY <1>2, FileFacts
    <3> QED BY <2>2, <3>1 DEF FileInv, Clean, Idle, Path, SlotPath, Exists
  <2>6. "m64p" \in types
    BY <2>2, <2>3, <2>4, <2>5
  <2> QED BY <2>2, <2>6
<1> HIDE DEF type, found, want
<1>9. NativeThere' => /\ emu'.at = "dispatch" /\ emu'.file \in SlotFiles
                      /\ files[emu'.file].type # "missing"
                      /\ job'.type = "m64p"
  BY <1>1, <1>2, <1>4, <1>11
<1>10. ASSUME emu'.clean, emu'.want # 0, emu'.file \notin Slots \X {"old"}
       PROVE  /\ Clean /\ emu'.at = "dispatch"
              /\ files[emu'.file] = [type |-> job'.type, id |-> emu'.want]
  <2>1. Clean /\ want # 0 /\ emu'.want = want
    BY <1>1, <1>10 DEF want
  <2>2. found /\ files[Path(type)].type = type /\ files[Path(type)].id = want
    <3>1. CASE job.fname # NoName
      BY <1>5, <2>1, <3>1
    <3>2. CASE job.fname = NoName /\ files[<<slot, "old">>].type = "missing"
      BY <1>6, <2>1, <3>2
    <3>3. CASE job.fname = NoName /\ files[<<slot, "old">>].type # "missing"
      <4>1. found /\ Path(type) \in Slots \X {"old"}
        BY <1>7, <2>1, <3>3
      <4> QED BY <1>1, <1>10, <4>1
    <3> QED BY <3>1, <3>2, <3>3
  <2>3. emu'.file = Path(type) /\ emu'.at = "dispatch"
    BY <1>1, <2>2
  <2>4. files[Path(type)] \in Content
    BY <1>2, <1>8, <2>2
  <2> QED BY <1>2, <2>1, <2>2, <2>3, <2>4 DEF Content
<1> QED BY <1>1, <1>9, <1>10

\* The promise of a load, before and after it has answered.
LoadsOK == LoadInv /\ SlotLoadSucceeds /\ LoadGetsNewest

\* Outside a load there is nothing to promise.
LEMMA LoadsOutside ==
    ASSUME emu.at \notin {"dispatch", "read", "answer"}
    PROVE  LoadsOK
  BY DEF LoadsOK, LoadInv, SlotLoadSucceeds, LoadGetsNewest

LEMMA LoadsStep ==
    ASSUME StateOK, StateOK', MailInv, LockInv, FileInv, KeptInv, LoadsOK, [Next]_vars
    PROVE  LoadsOK'
<1>0. WritesFail' = WritesFail /\ OtherThread' = OtherThread
  BY DEF Next, vars, WritesFail, OtherThread
<1> SUFFICES ASSUME ~WritesFail, ~OtherThread PROVE LoadsOK'
  BY <1>0 DEF LoadsOK, LoadInv, SlotLoadSucceeds, LoadGetsNewest
<1>1. caller = Idle /\ caller.at = "idle"
  BY DEF MailInv, Idle
<1>2. ASSUME emu'.at \notin {"dispatch", "read", "answer"} PROVE LoadsOK'
  BY <1>2 DEF LoadsOK, LoadInv, SlotLoadSucceeds, LoadGetsNewest
<1>3. ASSUME NEW r \in Requests, SetJob(r) \/ SetJobFree(r) PROVE LoadsOK'
  <2>1. SetJob(r)
    BY <1>3 DEF SetJobFree
  <2>2. emu'.at \notin {"dispatch", "read", "answer"}
    BY <2>1 DEF SetJob
  <2> QED BY <1>2, <2>2
<1>4. CASE SetJobKind \/ SetJobName
  BY <1>1, <1>4 DEF SetJobKind, SetJobName
<1>5. CASE \/ \E s \in Slots : SelectSlot(s)
           \/ UNCHANGED vars
  <2>1. UNCHANGED <<emu, job, files, queue, worker>>
    BY <1>5 DEF SelectSlot, vars
  <2> QED BY <1>0, <2>1 DEF LoadsOK, LoadInv, SlotLoadSucceeds, LoadGetsNewest, Clean,
                              NativeThere
<1>6. CASE LoadProbe
  <2>1. UNCHANGED <<files, queue, worker>>
    BY <1>6, LoadAt
  <2>2. /\ emu'.at \in {"dispatch", "answer"} /\ emu'.ret = FALSE
        /\ NativeThere' => /\ emu'.at = "dispatch" /\ emu'.file \in SlotFiles
                           /\ files[emu'.file].type # "missing"
                           /\ job'.type = "m64p"
        /\ (emu'.clean /\ emu'.want # 0 /\ emu'.file \notin Slots \X {"old"}) =>
              /\ Clean /\ emu'.at = "dispatch"
              /\ files[emu'.file] = [type |-> job'.type, id |-> emu'.want]
    BY <1>6, ProbeStep
  <2> QED BY <2>1, <2>2 DEF LoadsOK, LoadInv, SlotLoadSucceeds, LoadGetsNewest, Clean
<1>7. CASE LoadLock
  <2>1. emu \in Loading /\ emu.at = "dispatch" /\ job.type = "m64p"
    BY <1>7, Shapes DEF LoadLock
  <2>2. /\ UNCHANGED <<job, files, queue, worker>>
        /\ emu'.at = "read" /\ emu'.native = emu.native /\ emu'.file = emu.file
        /\ emu'.clean = emu.clean /\ emu'.want = emu.want
    BY <1>7, <2>1 DEF LoadLock, Loading
  <2> QED BY <1>0, <2>1, <2>2
          DEF LoadsOK, LoadInv, SlotLoadSucceeds, LoadGetsNewest, Clean, NativeThere
<1>8. CASE LoadRead
  <2>1. emu \in Loading /\ emu.at = "read" /\ files[emu.file] \in Content
    BY <1>8, Shapes DEF LoadRead, Loading, StateOK, StoreOK
  <2>2. /\ emu'.at = "answer" /\ emu'.native = emu.native /\ emu'.file = emu.file
        /\ emu'.clean = emu.clean /\ emu'.want = emu.want
        /\ emu'.got = files[emu.file] /\ emu'.ret = (files[emu.file].type = "m64p")
    BY <1>8, <2>1 DEF LoadRead, Loading
  <2>3. worker.at = "idle"
    BY <2>1 DEF LockInv
  <2>4. NativeThere => files[emu.file].type = "m64p"
    <3>1. SUFFICES ASSUME NativeThere PROVE files[emu.file].type = "m64p"
      OBVIOUS
    <3>2. emu.file \in SlotFiles /\ files[emu.file].type # "missing"
      BY <2>1, <3>1 DEF LoadsOK, LoadInv
    <3>3. files[emu.file].type \notin {"empty", "partial", "broken", "pj64_zip", "pj64_unc"}
      BY <2>3, <3>2, FileFacts DEF FileInv
    <3> QED BY <2>1, <3>2, <3>3 DEF Content, Contents
  <2>5. emu.clean /\ emu.want # 0 /\ emu.file \notin Slots \X {"old"} =>
           files[emu.file].type = "m64p" /\ files[emu.file].id = emu.want
    BY <2>1 DEF LoadsOK, LoadInv
  <2>6. SlotLoadSucceeds'
    BY <2>2, <2>4 DEF SlotLoadSucceeds, NativeThere
  <2>7. LoadGetsNewest'
    BY <2>2, <2>5 DEF LoadGetsNewest
  <2>8. LoadInv'
    BY <2>2 DEF LoadInv
  <2> QED BY <2>6, <2>7, <2>8 DEF LoadsOK
<1>9. CASE LoadOther
  <2>1. /\ emu \in Loading /\ emu.at = "dispatch" /\ files[emu.file] \in Content
        /\ job.type # "m64p"
    BY <1>9, Shapes DEF LoadOther, Loading, StateOK, StoreOK
  <2>2. /\ emu'.at = "answer" /\ emu'.native = emu.native /\ emu'.file = emu.file
        /\ emu'.clean = emu.clean /\ emu'.want = emu.want
        /\ emu'.got = files[emu.file] /\ emu'.ret = (files[emu.file].type = job.type)
    BY <1>9, <2>1 DEF LoadOther, Loading
  <2>3. ~NativeThere
    BY <2>1 DEF LoadsOK, LoadInv
  <2>4. emu.clean /\ emu.want # 0 /\ emu.file \notin Slots \X {"old"} =>
           files[emu.file].type = job.type /\ files[emu.file].id = emu.want
    BY <2>1 DEF LoadsOK, LoadInv
  <2>5. SlotLoadSucceeds'
    BY <2>2, <2>3 DEF SlotLoadSucceeds, NativeThere
  <2>6. LoadGetsNewest'
    BY <2>2, <2>4 DEF LoadGetsNewest
  <2>7. LoadInv'
    BY <2>2 DEF LoadInv
  <2> QED BY <2>5, <2>6, <2>7 DEF LoadsOK
<1>10. CASE LoadAnswer \/ ClearJob \/ Stop \/ Execute \/ CoreShutdown
  <2>1. emu'.at \notin {"dispatch", "read", "answer"}
    BY <1>10 DEF LoadAnswer, ClearJob, Stop, Execute, CoreShutdown, Running
  <2> QED BY <1>2, <2>1
<1>11. CASE Save
  <2>1. emu'.at = "clear"
    BY <1>11, SaveCases
  <2> QED BY <1>2, <2>1
<1>12. CASE WorkerStep
  <2>1. UNCHANGED <<emu, job>> /\ ~Clean
    BY <1>12 DEF WorkerStep, WorkerTake, WorkerOpen, WorkerWrite, WorkerClose,
                 WorkerFail, Clean, Idle
  <2>2. \A f \in Files : files[f].type # "missing" => files'[f].type # "missing"
    <3>1. files \in [Files -> Content]
      BY DEF StateOK, StoreOK
    <3>2. CASE WorkerTake \/ WorkerFail
      BY <3>2 DEF WorkerTake, WorkerFail
    <3>3. CASE WorkerOpen
      BY <3>1, <3>3 DEF WorkerOpen
    <3>4. CASE WorkerWrite
      BY <3>1, <3>4 DEF WorkerWrite, Content
    <3>5. CASE WorkerClose
      BY <3>1, <3>5 DEF WorkerClose, Content
    <3> QED BY <1>12, <3>2, <3>3, <3>4, <3>5 DEF WorkerStep
  <2>3. LoadInv'
    <3>1. ~(emu.at \in {"dispatch", "read"} /\ emu.clean /\ emu.want # 0
            /\ emu.file \notin Slots \X {"old"})
      BY <2>1 DEF LoadsOK, LoadInv
    <3>2. emu.at \in {"dispatch", "read"} /\ NativeThere =>
             /\ emu.file \in SlotFiles /\ files'[emu.file].type # "missing"
             /\ job.type = "m64p"
      BY <2>2, FileFacts DEF LoadsOK, LoadInv
    <3>3. emu.at = "read" => job.type = "m64p"
      BY DEF LoadsOK, LoadInv
    <3> QED BY <2>1, <3>1, <3>2, <3>3 DEF LoadInv, NativeThere
  <2>4. SlotLoadSucceeds' /\ LoadGetsNewest'
    BY <1>0, <2>1 DEF LoadsOK, SlotLoadSucceeds, LoadGetsNewest, NativeThere
  <2> QED BY <2>3, <2>4 DEF LoadsOK
<1> QED BY <1>3, <1>4, <1>5, <1>6, <1>7, <1>8, <1>9, <1>10, <1>11, <1>12
        DEF Next, Step, EmuStep

-----------------------------------------------------------------------------
\* The theorems.

LEMMA InitSave == Init => SaveInv
<1> SUFFICES ASSUME Init PROVE SaveInv
  OBVIOUS
<1>1. StateOK
  BY InitTypes
<1>2. MailInv /\ LockInv /\ DownInv
  BY DEF Init, MailInv, Idle, Nothing, LockInv, Running, DownInv
<1>3. Queued = {} /\ worker.at = "idle"
  BY DEF Init, Queued, Idle
<1>4. \A f \in Files : files[f].id = 0
  BY DEF Init, Missing
<1>5. OrderInv
  <2>1. Len(queue) = 0 /\ saves = 0
    BY DEF Init
  <2> QED BY <1>3, <1>4, <2>1 DEF OrderInv
<1>6. FileInv
  <2>1. \A f \in Files : files[f].type \in {"missing", "m64p", "pj64_zip", "pj64_unc"}
    BY DEF Init, Missing
  <2>2. \A f \in SlotFiles : files[f].type \notin {"pj64_zip", "pj64_unc"}
    BY FileFacts DEF Init, Missing, SlotFiles
  <2> QED BY <1>3, <2>1, <2>2 DEF FileInv
<1>7. KeptInv
  BY DEF Init, KeptInv
<1>8. LoadsOK
  BY LoadsOutside DEF Init, Running
<1> QED BY <1>1, <1>2, <1>5, <1>6, <1>7, <1>8 DEF SaveInv, LoadsOK

LEMMA StepTypes ==
    ASSUME StateOK, MailInv, LockInv, [Next]_vars
    PROVE  StateOK'
<1>1. env' = env
  BY DEF Next, vars
<1>2. CASE UNCHANGED vars
  BY <1>2 DEF vars, StateOK, EmuOK, WorkerOK, MailboxOK, StoreOK
<1> QED BY <1>1, <1>2, RequestTypes, LoadTypes, SaveTypes, OtherTypes, WorkerTypes
        DEF Next, Step, EmuStep

LEMMA StepSave ==
    ASSUME NamesKeepFormat, SaveInv, [Next]_vars
    PROVE  SaveInv'
<1>1. StateOK /\ MailInv /\ OrderInv /\ LockInv /\ FileInv /\ KeptInv /\ DownInv
      /\ LoadsOK
  BY DEF SaveInv, LoadsOK
<1>2. StateOK'
  BY <1>1, StepTypes
<1>3. MailInv' /\ OrderInv' /\ LockInv' /\ FileInv' /\ KeptInv' /\ DownInv' /\ LoadsOK'
  BY <1>1, <1>2, MailStep, OrderStep, LockStep, FileStep, KeptStep, DownStep, LoadsStep
<1> QED BY <1>2, <1>3 DEF SaveInv, LoadsOK

LEMMA AlwaysSave ==
    ASSUME NamesKeepFormat
    PROVE  Spec => []SaveInv
<1>1. SaveInv /\ [Next]_vars => SaveInv'
  BY StepSave
<1> QED BY <1>1, InitSave, PTL DEF Spec

\* A load of a slot that has a native file under the new name succeeds, also while
\* savestates_save_m64p_work rewrites it, and one under the old name only when no save is
\* on its way, for any number of slots and requests.
THEOREM SlotLoadTheorem ==
    ASSUME NamesKeepFormat
    PROVE  Spec => []SlotLoadSucceeds
<1>1. SaveInv => SlotLoadSucceeds
  BY DEF SaveInv
<1> QED BY <1>1, AlwaysSave, PTL

\* A load gets the newest save of its slot or name when no save is on its way.
THEOREM NewestTheorem ==
    ASSUME NamesKeepFormat
    PROVE  Spec => []LoadGetsNewest
<1>1. SaveInv => LoadGetsNewest
  BY DEF SaveInv
<1> QED BY <1>1, AlwaysSave, PTL

\* When CoreShutdown has returned, the newest save of every slot and name is
\* complete in a file, unless a write failed.
THEOREM ShutdownTheorem ==
    ASSUME NamesKeepFormat
    PROVE  Spec => []ShutdownKeepsSaves
<1>1. SaveInv => ShutdownKeepsSaves
  <2> SUFFICES ASSUME SaveInv, phase = "down", ~WritesFail,
                      NEW t \in Targets, newest[t] # 0
               PROVE  \E f \in Files : /\ f[1] = t[1]
                                       /\ files[f].type \in Types
                                       /\ files[f].id = newest[t]
    BY DEF ShutdownKeepsSaves
  <2>1. queue = <<>> /\ worker.at = "idle"
    BY DEF SaveInv, DownInv, Clean, Idle
  <2>2. Queued = {}
    BY <2>1 DEF Queued
  <2>3. PICK f \in Files : /\ TargetOf(f) = t
                           /\ files[f].type \in Types /\ files[f].id = newest[t]
    BY <2>1, <2>2 DEF SaveInv, KeptInv, Kept
  <2>4. f[1] = t[1]
    BY <2>3 DEF TargetOf
  <2> QED BY <2>3, <2>4
<1> QED BY <1>1, AlwaysSave, PTL

\* No file ever goes back to an older save: the worker writes the saves in the
\* order in which savestates_save took them.
THEOREM OrderTheorem ==
    ASSUME NamesKeepFormat
    PROVE  Spec => SavesInOrder
<1>1. ASSUME SaveInv, [Next]_vars
      PROVE  [\A f \in Files : files'[f].id >= files[f].id]_files
  <2>1. /\ files \in [Files -> Content] /\ saves \in Nat
        /\ \A f \in Files : files[f].id \in Nat /\ files[f].id <= saves
    BY <1>1 DEF SaveInv, StateOK, StoreOK, OrderInv, Content
  <2>2. CASE UNCHANGED files
    BY <2>2
  <2>3. ASSUME NEW type, SavePj64(type)
        PROVE  \A f \in Files : files'[f].id >= files[f].id
    BY <2>1, <2>3 DEF SavePj64
  <2>4. CASE Save
    <3>1. StateOK /\ MailInv
      BY <1>1 DEF SaveInv
    <3>2. CASE SaveNative \/ SaveNoMemory
      BY <2>2, <3>2 DEF SaveNative, SaveNoMemory
    <3> QED BY <2>3, <2>4, <3>1, <3>2, SaveCases
  <2>5. CASE WorkerOpen
    <3>1. /\ worker.at = "open" /\ worker.item \in Item
          /\ files' = [files EXCEPT ![worker.item.file] =
                          [type |-> "empty", id |-> worker.item.n]]
      BY <1>1, <2>5, Shapes DEF WorkerOpen, SaveInv
    <3>2. files[worker.item.file].id < worker.item.n
      BY <1>1, <3>1 DEF SaveInv, OrderInv
    <3> QED BY <2>1, <3>1, <3>2 DEF Item
  <2>6. CASE WorkerWrite
    BY <2>1, <2>6 DEF WorkerWrite, Content
  <2>7. CASE WorkerClose
    BY <2>1, <2>7 DEF WorkerClose, Content
  <2>8. CASE WorkerTake \/ WorkerFail
    BY <2>2, <2>8 DEF WorkerTake, WorkerFail
  <2> QED BY <1>1, <2>2, <2>4, <2>5, <2>6, <2>7, <2>8, QuietSteps
          DEF Next, Step, EmuStep, WorkerStep, SaveInv
<1> QED BY <1>1, AlwaysSave, PTL DEF Spec, SavesInOrder
=============================================================================
