------------------------------ MODULE Recorder ------------------------------
(***************************************************************************)
(* SessionRecorder of lib/dual_engineer/recorder.py: one bounded asyncio    *)
(* queue, one worker task that drains it into recording folders, and the    *)
(* recorded_sessions catalogue of CareerDatabase.                           *)
(*                                                                          *)
(* Everything runs on one event loop.  `await queue.get()` suspends only    *)
(* when the queue is empty, so the worker takes item after item without     *)
(* giving up the loop: while it is "busy" no other task moves.  The callers *)
(* are the receive task (raw packets, metadata, finalize), the 20 Hz        *)
(* sampler, the HTTP handlers (driver selection) and the shutdown task.     *)
(*                                                                          *)
(* Abstracted: file contents (a folder keeps how many items it holds and of *)
(* which sessions), sizes (the cap of a session is a number of packets, the *)
(* storage budget is a free choice per item: see StorageBudget), file names *)
(* (a folder is a number), the time of recording.                           *)
(***************************************************************************)
EXTENDS Naturals, Sequences, FiniteSets

CONSTANTS
  Uids,         \* session UIDs the game may use; all are > 0
  None,         \* Python's None
  QueueSize,    \* settings.raw_packet_queue_size
  SessionCap,   \* settings.max_session_size_mb, in packets
  Retention,    \* settings.retention_days > 0
  Faults,       \* the steps of the worker's file and database work that may fail
  MaxFolders,   \* bound: folders ever created
  MaxOffers     \* bound: raw packets, and samples, offered per process run

FinalizeFaults == {"close", "files", "catalog", "mark", "retention"}
CreateFaults   == {"create", "register"}

ASSUME UidsAssumption   == None \notin Uids
ASSUME BoundsAssumption == /\ QueueSize \in Nat \ {0} /\ SessionCap \in Nat
                           /\ MaxFolders \in Nat /\ MaxOffers \in Nat
ASSUME ModesAssumption  == Retention \in BOOLEAN /\ Faults \subseteq FinalizeFaults \cup CreateFaults

VARIABLES
  queue,      \* self.queue
  worker,     \* self._worker_task: "off", "idle" in get(), "busy", "dead" by an exception, "done"
  open,       \* self._current
  pending,    \* self._pending_metadata: at most one session's
  folder,     \* the export directory
  nfolders,   \* folders created so far
  row,        \* table recorded_sessions
  dropped,    \* self.dropped_raw_packets, self.dropped_samples
  receiver,   \* the receive task, when it is inside finalize()
  shutdown,   \* the shutdown task
  offered, written, lost,  \* history: items offered, written, in hand when the worker died
  orphans     \* history: folders a dead process left in recording state

vars == <<queue, worker, open, pending, folder, nfolders, row, dropped,
          receiver, shutdown, offered, written, lost, orphans>>
disk == <<folder, nfolders, row, orphans>>
memory == <<open, pending>>
counts == <<dropped, offered, written, lost>>

FolderIds == 1..MaxFolders
DataKinds == {"raw", "sample"}

Item == [kind : DataKinds \cup {"finalize"}, uid : Uids]
          \cup [kind : {"metadata"}, uid : Uids, full : BOOLEAN]
          \cup [kind : {"stop"}]
Folder == [state : {"absent", "recording", "final", "deleted"}, uid : Uids \cup {None},
           raw : Nat, holds : SUBSET Uids, classified : BOOLEAN]
Row  == [folder : 0..MaxFolders, path : {"recording", "final"}, finalized : BOOLEAN]
Open == [uid : Uids, folder : FolderIds, closed : BOOLEAN, full : BOOLEAN]
Pending == [uid : Uids, full : BOOLEAN]
ASSUME NoneAssumption == None \notin Open \cup Pending
Receiver == [pc : {"ready", "awaiting", "answered", "gone"}, uid : Uids \cup {None},
             result : {"none", "path", "error"}, folder : 0..MaxFolders]
              \cup [pc : {"putting"}, uid : Uids, result : {"none"}, folder : {0}]

TypeOK ==
  /\ queue \in Seq(Item) /\ Len(queue) <= QueueSize
  /\ worker \in {"off", "idle", "busy", "dead", "done"}
  /\ open \in Open \cup {None}
  /\ pending \in Pending \cup {None}
  /\ folder \in [FolderIds -> Folder]
  /\ nfolders \in 0..MaxFolders
  /\ row \in [Uids -> Row]
  /\ dropped \in [DataKinds -> Nat]
  /\ receiver \in Receiver
  /\ shutdown \in {"no", "cancelled", "putting", "awaiting", "answered", "stopped"}
  /\ offered \in [DataKinds -> Nat] /\ written \in [DataKinds -> Nat] /\ lost \in [DataKinds -> Nat]
  /\ orphans \subseteq FolderIds

Absent == [state |-> "absent", uid |-> None, raw |-> 0, holds |-> {}, classified |-> FALSE]
NoRow  == [folder |-> 0, path |-> "recording", finalized |-> FALSE]
Asking(pc, uid) == [pc |-> pc, uid |-> uid, result |-> "none", folder |-> 0]
Ready  == Asking("ready", None)
Zero   == [k \in DataKinds |-> 0]

Init ==
  /\ queue = <<>> /\ worker = "idle" /\ open = None /\ pending = None
  /\ folder = [f \in FolderIds |-> Absent] /\ nfolders = 0 /\ row = [u \in Uids |-> NoRow]
  /\ receiver = Ready /\ shutdown = "no"
  /\ dropped = Zero /\ offered = Zero /\ written = Zero /\ lost = Zero
  /\ orphans = {}

-----------------------------------------------------------------------------
(* The callers.  They run only while the worker is not draining the queue.  *)

LoopFree == worker # "busy"
Full     == Len(queue) >= QueueSize

\* Mutant: the queue is made without its maxsize.
Offer_Unbounded(kind, uid) ==
  /\ LoopFree
  /\ offered[kind] < MaxOffers
  /\ offered' = [offered EXCEPT ![kind] = @ + 1]
  /\ queue' = Append(queue, [kind |-> kind, uid |-> uid])
  /\ UNCHANGED <<worker, memory, disk, receiver, shutdown, dropped, written, lost>>

\* queue.put_nowait of a data item, and the counter QueueFull leads to.
Offer(kind, uid) ==
  /\ LoopFree
  /\ offered[kind] < MaxOffers
  /\ offered' = [offered EXCEPT ![kind] = @ + 1]
  /\ IF Full THEN /\ dropped' = [dropped EXCEPT ![kind] = @ + 1]
                  /\ UNCHANGED queue
             ELSE /\ queue' = Append(queue, [kind |-> kind, uid |-> uid])
                  /\ UNCHANGED dropped
  /\ UNCHANGED <<worker, memory, disk, receiver, shutdown, written, lost>>

\* The receive task is one coroutine: it offers nothing while it awaits finalize().
EnqueueRaw(uid) == receiver.pc = "ready" /\ Offer("raw", uid)

\* The sampler runs until DualEngineerService.stop cancels it.
EnqueueSample(uid) == shutdown \in {"no", "cancelled"} /\ Offer("sample", uid)

\* full: on_session_update's dictionary (track and drivers), by the receive task;
\* otherwise the drivers alone, by the receive task or by an HTTP handler.
UpdateMetadata(uid, full) ==
  /\ LoopFree
  /\ shutdown = "no"
  /\ full => receiver.pc = "ready"
  /\ ~Full
  /\ queue' = Append(queue, [kind |-> "metadata", uid |-> uid, full |-> full])
  /\ UNCHANGED <<worker, memory, disk, receiver, shutdown, counts>>

Finalize(uid) ==
  /\ LoopFree
  /\ receiver.pc = "ready"
  /\ worker # "off"
  /\ IF Full THEN /\ receiver' = Asking("putting", uid)
                  /\ UNCHANGED queue
             ELSE /\ receiver' = Asking("awaiting", uid)
                  /\ queue' = Append(queue, [kind |-> "finalize", uid |-> uid])
  /\ UNCHANGED <<worker, memory, disk, shutdown, counts>>

\* A putter blocked on the full queue gets its slot.
FinalizePut ==
  /\ LoopFree
  /\ receiver.pc = "putting" /\ ~Full
  /\ receiver' = [receiver EXCEPT !.pc = "awaiting"]
  /\ queue' = Append(queue, [kind |-> "finalize", uid |-> receiver.uid])
  /\ UNCHANGED <<worker, memory, disk, shutdown, counts>>

FinalizeReturns ==
  /\ LoopFree
  /\ receiver.pc = "answered"
  /\ receiver' = Ready
  /\ UNCHANGED <<queue, worker, memory, disk, shutdown, counts>>

\* F1TelemetryHandler.stop cancels the receive task, wherever it is suspended.
CancelReceiver ==
  /\ LoopFree
  /\ shutdown = "no"
  /\ shutdown' = "cancelled"
  /\ receiver' = [receiver EXCEPT !.pc = "gone"]
  /\ UNCHANGED <<queue, worker, memory, disk, counts>>

\* DualEngineerService.stop: the sampler is cancelled, then recorder.stop().
Stop ==
  /\ LoopFree
  /\ shutdown \in {"cancelled", "putting"}
  /\ IF Full THEN /\ shutdown = "cancelled"
                  /\ shutdown' = "putting"
                  /\ UNCHANGED queue
             ELSE /\ shutdown' = "awaiting"
                  /\ queue' = Append(queue, [kind |-> "stop"])
  /\ UNCHANGED <<worker, memory, disk, receiver, counts>>

StopReturns ==
  /\ LoopFree
  /\ shutdown = "answered" /\ worker = "done"
  /\ shutdown' = "stopped" /\ worker' = "off"
  /\ UNCHANGED <<queue, memory, disk, receiver, counts>>

-----------------------------------------------------------------------------
(* The worker's operations on its session, the folders and the catalogue,   *)
(* as the values they leave behind.  how is "ok" or the step that raised.   *)

\* Mutant: any open session will do.
IsCurrent_Any(uid) == open # None

IsCurrent(uid) == open # None /\ open.uid = uid

\* A finalization that failed after closing the files can never succeed again:
\* its first step flushes the closed samples file.
FinalizeOutcomes == IF open # None /\ open.closed THEN {"files"} ELSE {"ok"} \cup (Faults \cap FinalizeFaults)
CreateOutcomes   == {"ok"} \cup (Faults \cap CreateFaults)

\* _apply_retention: finished folders that a finalized row names, old enough.
\* The row of the session being finalized names its new folder by then.
Expired ==
  IF ~Retention \/ open = None THEN {}
  ELSE {f \in FolderIds : /\ folder[f].state = "final"
                          /\ \E u \in Uids \ {open.uid} : row[u] = [folder |-> f, path |-> "final", finalized |-> TRUE]}

\* The parts of _finalize_current: the folder gets its final name and contents, the
\* catalogue lists it, the recorder lets go of the session.
Moved(how)  == how \notin {"close", "files"}
Marked(how) == how \in {"ok", "retention"}
FolderAfter(classified, how, gone) ==
  [f \in FolderIds |->
     IF f = open.folder /\ Moved(how) /\ folder[f].state = "recording"
     THEN [folder[f] EXCEPT !.state = "final", !.classified = classified]
     ELSE IF f \in gone THEN [folder[f] EXCEPT !.state = "deleted"] ELSE folder[f]]
RowAfter(how) ==
  IF Marked(how) \/ how = "mark"
  THEN [row EXCEPT ![open.uid] = [folder |-> open.folder, path |-> "final",
                                  finalized |-> Marked(how) \/ @.finalized]]
  ELSE row
OpenAfter(how) ==
  IF Marked(how) THEN None ELSE IF how = "close" THEN open ELSE [open EXCEPT !.closed = TRUE]

\* Mutant: self._current is not reset.
Finalized_KeepsOpen(classified, how, gone) ==
  [folder |-> FolderAfter(classified, how, gone), row |-> RowAfter(how), open |-> open]

\* _finalize_current({} or the classification): gone are the folders retention removes.
Finalized(classified, how, gone) ==
  [folder |-> FolderAfter(classified, how, gone), row |-> RowAfter(how), open |-> OpenAfter(how)]

\* What _ensure_session leaves behind when it returns (ok) or raises.
Ends(now, ok) == [folder |-> now.folder, row |-> now.row, open |-> now.open,
                  pending |-> pending, nfolders |-> nfolders, ok |-> ok]
New(uid) == [Absent EXCEPT !.state = "recording", !.uid = uid]
Opened(uid) == [uid |-> uid, folder |-> nfolders + 1, closed |-> FALSE,
                full |-> pending # None /\ pending.uid = uid /\ pending.full]

\* The folder and the row _ensure_session makes for a session when none is open.
Created(uid, now, how) ==
  IF how = "create" THEN Ends(now, FALSE)
  ELSE [folder   |-> [now.folder EXCEPT ![nfolders + 1] = New(uid)],
        row      |-> IF how = "register" THEN now.row
                     ELSE [now.row EXCEPT ![uid].folder = nfolders + 1, ![uid].path = "recording"],
        open     |-> Opened(uid),
        pending  |-> None,
        nfolders |-> nfolders + 1,
        ok       |-> how = "ok"]

Now == [folder |-> folder, row |-> row, open |-> open]

\* Mutant: the session that was open is not finalized.
Ensured_Forgets(uid, fin, gone, make) ==
  IF IsCurrent(uid) THEN Ends(Now, TRUE) ELSE Created(uid, Now, make)

\* _ensure_session(uid): reuse, create, or finalize the other session and create.
Ensured(uid, fin, gone, make) ==
  IF IsCurrent(uid) THEN Ends(Now, TRUE)
  ELSE IF open = None THEN Created(uid, Now, make)
  ELSE IF fin = "ok" THEN Created(uid, Finalized(FALSE, fin, gone), make)
  ELSE Ends(Finalized(FALSE, fin, gone), FALSE)

-----------------------------------------------------------------------------
(* The worker.  One action per kind of item; each takes the head.           *)

Rest == Tail(queue)
Take(kind) ==
  /\ worker \in {"idle", "busy"}
  /\ queue # <<>> /\ Head(queue).kind = kind
  /\ queue' = Rest

Carry == IF Rest = <<>> THEN "idle" ELSE "busy"

\* Mutant: a refused item is not counted.
RefuseData_Uncounted(kind) ==
  /\ Take(kind)
  /\ worker' = Carry
  /\ UNCHANGED <<memory, disk, receiver, shutdown, counts>>

\* The budget of the export drive refuses the item (_storage_budget_available).
RefuseData(kind) ==
  /\ Take(kind)
  /\ worker' = Carry
  /\ dropped' = [dropped EXCEPT ![kind] = @ + 1]
  /\ UNCHANGED <<memory, disk, receiver, shutdown, offered, written, lost>>

Stored(r, kind, uid) == [r EXCEPT !.raw = IF kind = "raw" THEN @ + 1 ELSE @, !.holds = @ \cup {uid}]

\* The item at the head after _ensure_session left s: an exception ends the worker, the
\* session's cap refuses it, or it is written.
StoreInto(s, kind) ==
  LET f    == s.open.folder
      dies == IF s.ok THEN s.open.closed ELSE TRUE
      capped == kind = "raw" /\ s.folder[f].raw >= SessionCap
  IN /\ open' = s.open /\ pending' = s.pending /\ row' = s.row /\ nfolders' = s.nfolders
     /\ \/ /\ dies
           /\ worker' = "dead" /\ folder' = s.folder
           /\ lost' = [lost EXCEPT ![kind] = @ + 1]
           /\ UNCHANGED <<dropped, written>>
        \/ /\ ~dies /\ capped
           /\ worker' = Carry /\ folder' = s.folder
           /\ dropped' = [dropped EXCEPT ![kind] = @ + 1]
           /\ UNCHANGED <<written, lost>>
        \/ /\ ~dies /\ ~capped
           /\ worker' = Carry
           /\ folder' = [s.folder EXCEPT ![f] = Stored(@, kind, Head(queue).uid)]
           /\ written' = [written EXCEPT ![kind] = @ + 1]
           /\ UNCHANGED <<dropped, lost>>

\* A raw packet or a sample reaches its session's folder.
StoreData(kind) ==
  /\ Take(kind)
  /\ nfolders < MaxFolders
  /\ \E fin \in FinalizeOutcomes, make \in CreateOutcomes :
     \E gone \in SUBSET (IF fin = "ok" THEN Expired ELSE {}) :
       StoreInto(Ensured(Head(queue).uid, fin, gone, make), kind)
  /\ UNCHANGED <<receiver, shutdown, offered, orphans>>

WorkMetadata ==
  /\ Take("metadata")
  /\ LET m == Head(queue) IN
     IF IsCurrent(m.uid)
     THEN /\ open' = [open EXCEPT !.full = @ \/ m.full]
          /\ \/ /\ row' = [row EXCEPT ![m.uid].folder = open.folder, ![m.uid].path = "recording"]
                /\ worker' = Carry
             \/ /\ "register" \in Faults
                /\ UNCHANGED row
                /\ worker' = "dead"
          /\ UNCHANGED pending
     ELSE /\ pending' = [uid |-> m.uid, full |-> m.full]
          /\ worker' = Carry
          /\ UNCHANGED <<open, row>>
  /\ UNCHANGED <<folder, nfolders, orphans, receiver, shutdown, counts>>

\* future.set_result on a future its cancelled awaiter took along raises
\* InvalidStateError, and so does the set_exception that reports it.
Answer(result, f) ==
  IF receiver.pc = "gone"
  THEN worker' = "dead" /\ UNCHANGED receiver
  ELSE /\ worker' = Carry
       /\ receiver' = [receiver EXCEPT !.pc = "answered", !.result = result, !.folder = f]

Closing(classified, how, gone) ==
  LET s == Finalized(classified, how, gone)
  IN folder' = s.folder /\ row' = s.row /\ open' = s.open

\* Mutant: a session that is not being recorded is ignored, its future with it.
WorkFinalize_Silent ==
  /\ Take("finalize")
  /\ IF IsCurrent(Head(queue).uid)
     THEN Closing(TRUE, "ok", {}) /\ Answer("path", open.folder)
     ELSE worker' = Carry /\ UNCHANGED <<folder, row, open, receiver>>
  /\ UNCHANGED <<pending, nfolders, orphans, shutdown, counts>>

WorkFinalize ==
  /\ Take("finalize")
  /\ IF IsCurrent(Head(queue).uid)
     THEN \E how \in FinalizeOutcomes :
          \E gone \in SUBSET (IF how = "ok" THEN Expired ELSE {}) :
            /\ Closing(TRUE, how, gone)
            /\ IF how = "ok" THEN Answer("path", open.folder) ELSE Answer("error", 0)
     ELSE Answer("none", 0) /\ UNCHANGED <<folder, row, open>>
  /\ UNCHANGED <<pending, nfolders, orphans, shutdown, counts>>

\* Mutant: the worker stops without finalizing.
WorkStop_Leaves ==
  /\ Take("stop")
  /\ worker' = "done" /\ shutdown' = "answered"
  /\ UNCHANGED <<memory, disk, receiver, counts>>

WorkStop ==
  /\ Take("stop")
  /\ worker' = "done" /\ shutdown' = "answered"
  /\ IF open = None THEN UNCHANGED <<folder, row, open>>
     ELSE \E how \in FinalizeOutcomes :
          \E gone \in SUBSET (IF how = "ok" THEN Expired ELSE {}) :
            Closing(FALSE, how, gone)
  /\ UNCHANGED <<pending, nfolders, orphans, receiver, counts>>

Worker == \/ \E kind \in DataKinds : RefuseData(kind) \/ StoreData(kind)
          \/ WorkMetadata \/ WorkFinalize \/ WorkStop

\* The process ends (killed, power loss, an exception that reached gather, or its
\* normal end after stop) and is started again: only the disk and the catalogue stay.
Restart ==
  /\ queue' = <<>> /\ worker' = "idle" /\ open' = None /\ pending' = None
  /\ receiver' = Ready /\ shutdown' = "no"
  /\ dropped' = Zero /\ offered' = Zero /\ written' = Zero /\ lost' = Zero
  /\ orphans' = orphans \cup {f \in FolderIds : folder[f].state = "recording"}
  /\ UNCHANGED <<folder, nfolders, row>>

Receive == \E uid \in Uids : \/ EnqueueRaw(uid)
                             \/ \E full \in BOOLEAN : UpdateMetadata(uid, full)
                             \/ Finalize(uid)
Resume == FinalizePut \/ FinalizeReturns
Shutdown == CancelReceiver \/ Stop \/ StopReturns

\* One run of the process, and its successors.
Step == \/ Receive \/ Resume
        \/ \E uid \in Uids : EnqueueSample(uid)
        \/ Worker
        \/ Shutdown

Next == Step \/ Restart

Spec == Init /\ [][Next]_vars
-----------------------------------------------------------------------------
(* Properties.                                                              *)

\* Every folder still in recording state is the one the worker holds open, or a
\* process that ended left it behind: no path through _ensure_session forgets one.
PartialsAreAccountedFor ==
  \A f \in FolderIds : folder[f].state = "recording" =>
      \/ open # None /\ open.folder = f
      \/ f \in orphans

\* The packets and samples of two sessions never share a folder, whatever order
\* their items, the metadata and the finalizations are queued in.
NoMixing == \A f \in FolderIds : folder[f].holds \subseteq {folder[f].uid}

\* finalize() answers with a path only for a finished folder of the session it was
\* asked for, and that folder holds that session's classification.
AnswerIsOwnSession ==
  receiver.pc = "answered" /\ receiver.result = "path" =>
    LET f == receiver.folder IN
      /\ f \in FolderIds
      /\ folder[f].uid = receiver.uid
      /\ folder[f].state \in {"final", "deleted"} /\ folder[f].classified

Queued(kind) == Cardinality({i \in 1..Len(queue) : queue[i].kind = kind})

\* The drop counters that session_summary.json reports are exact: what was offered is
\* written, still queued, counted as dropped, or was in hand when the worker died.
DropsAreCounted ==
  \A k \in DataKinds : offered[k] = written[k] + Queued(k) + dropped[k] + lost[k]

\* After an orderly stop nothing is left half done: no session open, no folder in
\* recording state but older orphans, nothing of the queue unprocessed.
StoppedIsClean ==
  shutdown = "stopped" /\ Faults = {} =>
    /\ open = None /\ queue = <<>>
    /\ \A f \in FolderIds : folder[f].state = "recording" => f \in orphans

\* The export directory behaves as RecordingArchive says, through failed finalizations,
\* restarts, retention and sessions recorded a second time: sealed exports never change,
\* nothing is removed before it is sealed, one folder at most is being written.
Live == IF open = None THEN 0
        ELSE IF folder[open.folder].state = "recording" THEN open.folder ELSE 0
Archive == INSTANCE RecordingArchive WITH store <- folder, live <- Live, NoFolder <- 0
RefinesArchive == Archive!Spec

\* DATA_FORMATS.md: an interrupted recording stays a partial folder "rather than
\* presenting incomplete data as finalized".
PartialIsNeverPresentedAsFinalized ==
  \A u \in Uids : row[u].finalized => folder[row[u].folder].state # "recording"
-----------------------------------------------------------------------------
(* Fairness.  The event loop runs its ready tasks in turn: the worker takes *)
(* its step, and a caller that is ready again, or a putter that a free slot *)
(* woke, gets the loop although other callers and the worker keep it busy   *)
(* in between, hence strong fairness for the callers.                       *)

Fairness == /\ WF_vars(Worker)
            /\ SF_vars(FinalizePut) /\ SF_vars(FinalizeReturns)
            /\ SF_vars(Stop) /\ SF_vars(StopReturns)

LiveSpec == Init /\ [][Next]_vars /\ Fairness

\* The receive task, and with it all ingestion, always comes back from finalize().
FinalizeIsAnswered == receiver.pc \in {"putting", "awaiting"} ~> receiver.pc \in {"ready", "gone"}
=============================================================================
