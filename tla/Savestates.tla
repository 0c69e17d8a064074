----------------------------- MODULE Savestates -----------------------------
(***************************************************************************)
(* src/main/savestates.c: saving and loading the state of the machine.     *)
(*                                                                         *)
(* A request of the front-end is left in a mailbox of one place (job, type,*)
(* fname).  gen_interrupt looks at it at the end of a block, at a moment   *)
(* when interrupt_unsafe_state is 0, and carries it out on the emulation   *)
(* thread; a native state is written to its file by the worker of the work *)
(* queue, under savestates_lock, which a load also takes.                  *)
(*                                                                         *)
(* The contents of a state are the number of the save that took them: 0    *)
(* for a file left by an earlier session, n for the n-th save of this one. *)
(***************************************************************************)
EXTENDS Integers, Sequences, FiniteSets

CONSTANTS
    SlotCount,     \* slots are 0 .. SlotCount - 1; ten in the code
    Requests,      \* the requests of the front-end: [kind, type, fname]
    Initial,       \* the files that exist at first
    Environments   \* the ways in which the core is used: [autoInc, otherThread,
                   \* fromCallback, writesFail, maxRequests]

NoName == "NULL"
Types == {"m64p", "pj64_zip", "pj64_unc", "unknown"}
Slots == 0 .. SlotCount - 1
Names == {r.fname : r \in Requests} \ {NoName}
\* The files of a slot, one under the old name scheme, and the named files.
Files == (Slots \X {"old", "m64p", "pj64_zip", "pj64_unc"}) \cup ({-1} \X Names)
\* "partial" is a native file being written, "broken" a PJ64 file that could not
\* be written to its end; no loader accepts either.
Contents == {"missing", "empty", "partial", "broken", "m64p", "pj64_zip", "pj64_unc"}

ASSUME SavestatesAssumption ==
    /\ SlotCount \in Nat \ {0}
    /\ Requests \subseteq [kind : {"load", "save"}, type : Types, fname : STRING]
    /\ \A r \in Requests :
          /\ r.fname = NoName => r.type = "m64p"
          /\ r.kind = "load" /\ r.fname # NoName => r.type = "unknown"
    /\ Initial \subseteq Files
    /\ Environments \subseteq [autoInc : BOOLEAN, otherThread : BOOLEAN,
                               fromCallback : BOOLEAN, writesFail : BOOLEAN,
                               maxRequests : Nat]

VARIABLES
    env,     \* how the core is used this time; never changes
    job,     \* the mailbox; id is the number of the request (history)
    caller,  \* where savestates_set_job is when another thread calls it
    slot,    \* the current slot
    files,   \* what each file holds
    queue,   \* native states handed over to the work queue
    worker,  \* where savestates_save_m64p_work is
    lock,    \* savestates_lock: its owner and how often it holds it
    emu,     \* where the emulation thread is
    saves,   \* number of saves carried out so far
    newest,  \* the last save carried out for each slot and name (history)
    asked,   \* the requests so far (history)
    settled, \* requests that were answered or overtaken (history)
    phase    \* "up" or "down" (CoreShutdown has returned)

history == <<newest, asked, settled>>
vars == <<env, job, caller, slot, files, queue, worker, lock, emu, saves, newest,
          asked, settled, phase>>

AutoInc == env.autoInc            \* autoinc_save_slot
OtherThread == env.otherThread    \* requests come from a thread of the front-end,
                                  \* not from key handlers on the emulation thread
FromCallback == env.fromCallback  \* the StateCallback makes requests too
WritesFail == env.writesFail      \* the file system may refuse a write
MaxRequests == env.maxRequests    \* bound on the number of requests

Nothing == [kind |-> "nothing", type |-> "unknown", fname |-> NoName, id |-> 0]
Running == [at |-> "run"]
Idle == [at |-> "idle"]
Missing == [type |-> "missing", id |-> 0]
Targets == (Slots \X {"slot"}) \cup ({-1} \X Names)
Target(fname) == IF fname = NoName THEN <<slot, "slot">> ELSE <<-1, fname>>

Init ==
    /\ env \in Environments
    /\ job = Nothing
    /\ caller = Idle
    /\ slot \in Slots
    /\ files = [f \in Files |->
                  IF f \notin Initial THEN Missing
                  ELSE [type |-> IF f[2] \in {"pj64_zip", "pj64_unc"} THEN f[2]
                                ELSE "m64p",
                        id   |-> 0]]
    /\ queue = <<>>
    /\ worker = Idle
    /\ lock = [owner |-> "none", depth |-> 0]
    /\ emu = Running
    /\ saves = 0
    /\ newest = [t \in Targets |-> 0]
    /\ asked = <<>>
    /\ settled = {}
    /\ phase = "up"

-----------------------------------------------------------------------------
(* Requests.  savestates_set_job overwrites whatever is in the mailbox.     *)

\* A request that nobody has begun to carry out is overtaken by the next one.
Overtaken == IF job.id = 0 \/ ("id" \in DOMAIN emu /\ emu.id = job.id)
             THEN {} ELSE {job.id}

\* CoreDoCommand and main_state_load, main_state_save: a save is refused when
\* no emulation runs, a load is not.
MayAsk(r) ==
    /\ phase = "up"
    /\ Len(asked) < MaxRequests
    /\ r.kind = "save" => emu.at # "off"

\* On the emulation thread: a key handler, which runs in the VI handler, or the
\* StateCallback, which runs before the mailbox is cleared.
SetJob(r) ==
    /\ MayAsk(r)
    /\ \/ ~OtherThread /\ emu.at \in {"run", "off"}
       \/ FromCallback /\ emu.at = "clear" /\ emu.called
    /\ caller = Idle
    /\ asked' = Append(asked, r)
    /\ settled' = settled \cup Overtaken
    /\ job' = [kind |-> r.kind, type |-> r.type, fname |-> r.fname, id |-> Len(asked')]
    /\ UNCHANGED <<caller, slot, files, queue, worker, lock, emu, saves, newest, phase>>

\* On another thread: fname is freed, then job and type are set, then fname.
SetJobFree(r) ==
    /\ OtherThread /\ caller = Idle
    /\ MayAsk(r)
    /\ asked' = Append(asked, r)
    /\ job' = [job EXCEPT !.fname = NoName]
    /\ caller' = [at |-> "freed"]
    /\ UNCHANGED <<slot, files, queue, worker, lock, emu, saves, newest, settled, phase>>

SetJobKind ==
    /\ caller.at = "freed"
    /\ LET r == asked[Len(asked)] IN
       job' = [job EXCEPT !.kind = r.kind, !.type = r.type, !.id = Len(asked)]
    /\ settled' = settled \cup Overtaken
    /\ caller' = [at |-> "kind"]
    /\ UNCHANGED <<slot, files, queue, worker, lock, emu, saves, newest, asked, phase>>

SetJobName ==
    /\ caller.at = "kind"
    /\ job' = [job EXCEPT !.fname = asked[Len(asked)].fname]
    /\ caller' = Idle
    /\ UNCHANGED <<slot, files, queue, worker, lock, emu, saves, newest, asked,
                   settled, phase>>

\* savestates_select_slot and savestates_inc_slot.
SelectSlot(s) ==
    /\ phase = "up" /\ s # slot
    /\ slot' = s
    /\ UNCHANGED <<job, caller, files, queue, worker, lock, emu, saves, history,
                   phase>>

IncSlot == IF slot + 1 > SlotCount - 1 THEN 0 ELSE slot + 1

-----------------------------------------------------------------------------
(* The emulation thread.                                                    *)

\* savestates_generate_path for a native state in the current slot: the old
\* name if that file is there and not empty.
SlotPath == IF files[<<slot, "old">>].type \notin {"missing", "empty"}
            THEN <<slot, "old">> ELSE <<slot, "m64p">>

Path(type) ==
    IF job.fname # NoName THEN <<-1, job.fname>>
    ELSE IF type = "m64p" THEN SlotPath ELSE <<slot, type>>

Exists(f) == files[f].type # "missing"

\* savestates_detect_type reads the first bytes of the file, without the lock.
DetectType(f) ==
    CASE files[f].type \in {"m64p", "partial"} -> "m64p"
      [] files[f].type \in {"pj64_zip", "pj64_unc"} -> files[f].type
      [] OTHER -> "unknown"

\* Nothing is on its way to a file.
Clean == queue = <<>> /\ worker = Idle

\* The name schemes, old and new, under which the slot has a native file
\* (history).
NativeNamesOf(fname) ==
    {n \in {"old", "m64p"} : fname = NoName /\ Exists(<<slot, n>>)}

\* savestates_load, up to the point where it dispatches on type: the file to
\* load, or none.  For a slot the formats are tried in turn.
LoadProbe ==
    /\ emu.at = "run" /\ job.kind = "load"
    /\ LET types == {t \in {"m64p", "pj64_zip", "pj64_unc"} : Exists(Path(t))}
           type  == IF job.fname # NoName
                    THEN IF job.type = "unknown" THEN DetectType(Path("m64p"))
                         ELSE job.type
                    ELSE CASE "m64p" \in types -> "m64p"
                           [] "m64p" \notin types /\ "pj64_zip" \in types -> "pj64_zip"
                           [] types = {"pj64_unc"} -> "pj64_unc"
                           [] OTHER -> "unknown"
           found == IF job.fname # NoName THEN Exists(Path(type)) ELSE types # {}
       IN  /\ job' = [job EXCEPT !.type = type]
           /\ emu' = [at    |-> IF found THEN "dispatch" ELSE "answer",
                      id    |-> job.id,
                      file  |-> IF found THEN Path(type) ELSE <<slot, "m64p">>,
                      native |-> NativeNamesOf(job.fname),
                      clean |-> Clean,
                      want  |-> newest[Target(job.fname)],
                      got   |-> Missing,
                      ret   |-> FALSE]
    /\ UNCHANGED <<caller, slot, files, queue, worker, lock, saves, history, phase>>

\* savestates_load_m64p: take the lock, read the whole file or fail, release
\* the lock.  The state of the machine is replaced only after a whole read.
LoadLock ==
    /\ emu.at = "dispatch" /\ job.type = "m64p"
    /\ lock.owner = "none"
    /\ lock' = [owner |-> "emu", depth |-> 1]
    /\ emu' = [emu EXCEPT !.at = "read"]
    /\ UNCHANGED <<job, caller, slot, files, queue, worker, saves, history, phase>>

\* LoadRead_KeepsLock forgets to release the lock.
LoadRead_KeepsLock ==
    /\ emu.at = "read"
    /\ emu' = [emu EXCEPT !.at = "answer", !.got = files[emu.file],
                          !.ret = files[emu.file].type = "m64p"]
    /\ UNCHANGED <<job, caller, slot, files, queue, worker, lock, saves, history,
                   phase>>

LoadRead ==
    /\ emu.at = "read"
    /\ emu' = [emu EXCEPT !.at = "answer", !.got = files[emu.file],
                          !.ret = files[emu.file].type = "m64p"]
    /\ lock' = [owner |-> "none", depth |-> 0]
    /\ UNCHANGED <<job, caller, slot, files, queue, worker, saves, history, phase>>

\* savestates_load_pj64_zip and _unc, which take no lock; an unknown type fails.
LoadOther ==
    /\ emu.at = "dispatch" /\ job.type # "m64p"
    /\ emu' = [emu EXCEPT !.at = "answer", !.got = files[emu.file],
                          !.ret = files[emu.file].type = job.type]
    /\ UNCHANGED <<job, caller, slot, files, queue, worker, lock, saves, history,
                   phase>>

\* StateChanged(M64CORE_STATE_LOADCOMPLETE, ret).
LoadAnswer ==
    /\ emu.at = "answer"
    /\ settled' = settled \cup {emu.id}
    /\ emu' = [at |-> "clear", id |-> emu.id, called |-> TRUE]
    /\ UNCHANGED <<job, caller, slot, files, queue, worker, lock, saves, newest,
                   asked, phase>>

AfterSave == IF AutoInc THEN IncSlot ELSE slot

\* savestates_save of a native state.  The state is copied now; the worker
\* writes the copy.  SaveNative_Front queues it before the others.
SaveNative_Front ==
    LET item == [file |-> Path("m64p"), n |-> saves + 1, id |-> job.id]
    IN  /\ queue' = <<item>> \o queue
        /\ saves' = saves + 1
        /\ newest' = [newest EXCEPT ![Target(job.fname)] = saves + 1]
        /\ slot' = AfterSave
        /\ UNCHANGED <<files, settled>>

SaveNative ==
    LET item == [file |-> Path("m64p"), n |-> saves + 1, id |-> job.id]
    IN  /\ queue' = Append(queue, item)
        /\ saves' = saves + 1
        /\ newest' = [newest EXCEPT ![Target(job.fname)] = saves + 1]
        /\ slot' = AfterSave
        /\ UNCHANGED <<files, settled>>

\* StateChanged(M64CORE_STATE_SAVECOMPLETE, ...) for request id.
SaveAnswer(id) == settled' = settled \cup {id}

\* No memory, before or after the slot is advanced.
SaveNoMemory ==
    /\ WritesFail
    /\ slot' \in {slot, AfterSave}
    /\ SaveAnswer(job.id)
    /\ UNCHANGED <<queue, files, saves, newest>>

\* savestates_save_pj64_zip and _unc write the file themselves, and answer.
SavePj64(type) ==
    LET f == Path(type) IN
    /\ saves' = saves + 1
    /\ newest' = [newest EXCEPT ![Target(job.fname)] = saves + 1]
    /\ SaveAnswer(job.id)
    /\ \/ files' = [files EXCEPT ![f] = [type |-> type, id |-> saves + 1]]
       \/ /\ WritesFail
          /\ files' \in {files, [files EXCEPT ![f] = [type |-> "broken", id |-> saves + 1]]}
    /\ UNCHANGED <<queue, slot>>

\* A PJ64 state is saved only when the next event is VI_INT or COMPARE_INT:
\* gen_interrupt leaves the job in the mailbox until then.
Save ==
    /\ emu.at = "run" /\ job.kind = "save"
    /\ LET type == IF job.fname = NoName \/ job.type = "unknown" THEN "m64p"
                   ELSE job.type
       IN  /\ IF type = "m64p" THEN SaveNative \/ SaveNoMemory ELSE SavePj64(type)
           /\ emu' = [at |-> "clear", id |-> job.id, called |-> type # "m64p"]
           /\ job' = [job EXCEPT !.type = type]
    /\ UNCHANGED <<caller, worker, lock, asked, phase>>

\* savestates_clear_job, the last act of a load and of a save.
ClearJob ==
    /\ emu.at = "clear"
    /\ job' = Nothing
    /\ emu' = Running
    /\ UNCHANGED <<caller, slot, files, queue, worker, lock, saves, history, phase>>

EmuStep == LoadProbe \/ LoadLock \/ LoadRead \/ LoadOther \/ LoadAnswer \/ Save
           \/ ClearJob

\* The emulation ends, and may be started again (M64CMD_EXECUTE).
Stop ==
    /\ emu.at = "run"
    /\ emu' = [at |-> "off"]
    /\ UNCHANGED <<job, caller, slot, files, queue, worker, lock, saves, history,
                   phase>>

Execute ==
    /\ emu.at = "off" /\ phase = "up"
    /\ emu' = Running
    /\ UNCHANGED <<job, caller, slot, files, queue, worker, lock, saves, history,
                   phase>>

-----------------------------------------------------------------------------
(* The worker: savestates_save_m64p_work.  SDL mutexes are recursive.       *)

Locked == [owner |-> "worker", depth |-> lock.depth + 1]
Unlocked == IF lock.depth = 1 THEN [owner |-> "none", depth |-> 0]
            ELSE [lock EXCEPT !.depth = @ - 1]

\* WorkerTake_NoLock does not take the lock; it is still released at the end.
WorkerTake_NoLock ==
    /\ worker = Idle /\ queue # <<>>
    /\ worker' = [at |-> "open", item |-> Head(queue)]
    /\ queue' = Tail(queue)
    /\ UNCHANGED <<job, caller, slot, files, lock, emu, saves, history, phase>>

WorkerTake ==
    /\ worker = Idle /\ queue # <<>>
    /\ lock.owner \in {"none", "worker"}
    /\ lock' = Locked
    /\ worker' = [at |-> "open", item |-> Head(queue)]
    /\ queue' = Tail(queue)
    /\ UNCHANGED <<job, caller, slot, files, emu, saves, history, phase>>

\* gzopen truncates the file.
WorkerOpen ==
    /\ worker.at = "open"
    /\ files' = [files EXCEPT ![worker.item.file] =
                    [type |-> "empty", id |-> worker.item.n]]
    /\ worker' = [worker EXCEPT !.at = "write"]
    /\ UNCHANGED <<job, caller, slot, queue, lock, emu, saves, history, phase>>

\* gzwrite has sent the first bytes to the file.
WorkerWrite ==
    /\ worker.at = "write"
    /\ files' = [files EXCEPT ![worker.item.file].type = "partial"]
    /\ worker' = [worker EXCEPT !.at = "close"]
    /\ UNCHANGED <<job, caller, slot, queue, lock, emu, saves, history, phase>>

\* gzclose has written the rest; the lock is released and the answer is given.
\* The result of gzclose is not looked at.
WorkerClose ==
    /\ worker.at = "close"
    /\ \/ files' = [files EXCEPT ![worker.item.file].type = "m64p"]
       \/ WritesFail /\ UNCHANGED files
    /\ SaveAnswer(worker.item.id)
    /\ lock' = Unlocked
    /\ worker' = Idle
    /\ UNCHANGED <<job, caller, slot, queue, emu, saves, newest, asked, phase>>

\* gzopen or gzwrite fails: the answer is 0 and the lock is not released.
WorkerFail ==
    /\ WritesFail
    /\ worker.at \in {"open", "close"}
    /\ SaveAnswer(worker.item.id)
    /\ worker' = Idle
    /\ UNCHANGED <<job, caller, slot, files, queue, lock, emu, saves, newest,
                   asked, phase>>

WorkerStep == WorkerTake \/ WorkerOpen \/ WorkerWrite \/ WorkerClose \/ WorkerFail

\* CoreShutdown: workqueue_shutdown waits for the queue to drain, and
\* savestates_deinit clears the mailbox.
\* CoreShutdown_NoWait does not wait for the work queue.
CoreShutdown_NoWait ==
    /\ phase = "up" /\ emu.at = "off" /\ caller = Idle
    /\ phase' = "down"
    /\ job' = Nothing
    /\ queue' = <<>>
    /\ UNCHANGED <<caller, slot, files, worker, lock, emu, saves, history>>

CoreShutdown ==
    /\ phase = "up" /\ emu.at = "off" /\ caller = Idle
    /\ Clean
    /\ phase' = "down"
    /\ job' = Nothing
    /\ UNCHANGED <<caller, slot, files, queue, worker, lock, emu, saves, history>>

Step ==
    \/ \E r \in Requests : SetJob(r) \/ SetJobFree(r)
    \/ SetJobKind \/ SetJobName
    \/ \E s \in Slots : SelectSlot(s)
    \/ EmuStep \/ Stop \/ Execute
    \/ WorkerStep
    \/ CoreShutdown

Next == Step /\ UNCHANGED env

Spec == Init /\ [][Next]_vars

\* The emulation thread comes, again and again, to an interrupt at which
\* interrupt_unsafe_state is 0, and the scheduler runs the worker and a thread that
\* is inside savestates_set_job.
FairSpec == /\ Spec
            /\ WF_vars(EmuStep /\ UNCHANGED env)
            /\ WF_vars(WorkerStep /\ UNCHANGED env)
            /\ WF_vars((SetJobKind \/ SetJobName) /\ UNCHANGED env)

-----------------------------------------------------------------------------
\* The types of the variables.
TypeOK ==
    /\ job \in [kind : {"nothing", "load", "save"}, type : Types,
                fname : Names \cup {NoName}, id : 0 .. MaxRequests]
    /\ caller.at \in {"idle", "freed", "kind"}
    /\ slot \in Slots
    /\ files \in [Files -> [type : Contents, id : 0 .. saves]]
    /\ queue \in Seq([file : Files, n : 1 .. saves, id : 1 .. Len(asked)])
    /\ worker.at \in {"idle", "open", "write", "close"}
    /\ lock.owner = "none" <=> lock.depth = 0
    /\ emu.at \in {"run", "dispatch", "read", "answer", "clear", "off"}
    /\ newest \in [Targets -> 0 .. saves]
    /\ settled \subseteq 1 .. Len(asked)

\* A file never goes back to an older save: the worker writes saves in the
\* order in which the emulation thread took them.
SavesInOrder == [][\A f \in Files : files'[f].id >= files[f].id]_files

\* The slot had a native file when the load began: one under the new name, or one
\* under the old name only that nobody was rewriting.
NativeThere == "m64p" \in emu.native \/ (emu.native # {} /\ emu.clean)

\* A load never fails on a file that savestates_save_m64p_work rewrites: if a native
\* file is there for the slot, the load succeeds, as long as writes do and no other
\* thread sets type between the probe and the dispatch.  A slot whose only file has
\* the old name and is being rewritten is left out, see OldNameUsed.
SlotLoadSucceeds ==
    (emu.at = "answer" /\ NativeThere /\ ~WritesFail /\ ~OtherThread) => emu.ret

\* What the comment in savestates_generate_path says of a slot with a file under its
\* old name: a load uses that file.  It does not while the worker has just truncated it.
OldNameUsed ==
    (emu.at = "answer" /\ "old" \in emu.native /\ ~WritesFail /\ ~OtherThread)
        => (emu.ret /\ emu.file[2] = "old")

\* When no save is on its way, a load gets the last save made to that slot or
\* name, as long as writes succeed and no other thread tears the request.  A slot
\* with a file under its old name is left out: a save that finds that file just
\* truncated goes to the new name, and the next load reads the old one.
LoadGetsNewest ==
    (/\ emu.at = "answer" /\ emu.clean /\ emu.want # 0 /\ ~WritesFail /\ ~OtherThread
     /\ emu.file \notin Slots \X {"old"})
        => (emu.ret /\ emu.got.id = emu.want)

\* Once CoreShutdown has returned, the last save of every slot and name is
\* complete in a file, unless writes failed.
ShutdownKeepsSaves ==
    (phase = "down" /\ ~WritesFail) =>
        \A t \in Targets : newest[t] # 0 =>
            \E f \in Files : /\ f[1] = t[1]
                             /\ files[f].type \in Types
                             /\ files[f].id = newest[t]

RequestIds == UNION {1 .. e.maxRequests : e \in Environments}
Answered(i) == i \in settled \/ emu.at = "off"

\* What the front-end is told: a request is answered, unless a later one
\* overtakes it or the emulation ends.
RequestsAnswered ==
    \A i \in RequestIds : (i <= Len(asked)) ~> Answered(i)

\* The part of RequestsAnswered that the code keeps: it holds for the requests of
\* key handlers, on the emulation thread, while every write succeeds.
KeyRequestsAnswered ==
    \A i \in RequestIds :
        (i <= Len(asked) /\ ~OtherThread /\ ~FromCallback /\ ~WritesFail) ~> Answered(i)

\* A save to a named file goes to that file.
NamedSaveGoesThere ==
    \A i \in 1 .. Len(queue) :
        LET r == asked[queue[i].id] IN
        r.fname # NoName => queue[i].file = <<-1, r.fname>>
=============================================================================
