--------------------------- MODULE Recorder_proofs ---------------------------
(***************************************************************************)
(* Theorems about Recorder for every set of sessions, queue size, session   *)
(* cap, set of faults and bound.                                            *)
(*                                                                          *)
(* Sound is the strengthening that makes the safety invariants inductive,   *)
(* stated on values so that it can be carried through the operators the     *)
(* worker's actions are built from (Finalized, Created, Ensured): folders   *)
(* are numbered without gaps, the open session's folder exists, is its own  *)
(* and is still being recorded while its files are open, no folder holds    *)
(* another session's items, and every unfinished folder is accounted for.   *)
(*                                                                         *)
(* On it rest the step simulation of RecordingArchive (ArchiveStep), the    *)
(* counters of the queue, and FlowInv, the order of requests, answers and   *)
(* the shutdown in the queue, which the last two theorems need.             *)
(***************************************************************************)
EXTENDS Recorder, SequenceTheorems, FiniteSetTheorems, TLAPS

Numbered(fo, n) == \A f \in FolderIds : f > n => fo[f] = Absent
OwnFolder(fo, n, op) ==
  op # None => /\ op.folder <= n
               /\ fo[op.folder].uid = op.uid
               /\ fo[op.folder].state \in {"recording", "final"}
               /\ ~op.closed => fo[op.folder].state = "recording"
Unmixed(fo) == \A f \in FolderIds : fo[f].holds \subseteq {fo[f].uid}
Accounted(fo, op, orph) ==
  \A f \in FolderIds : fo[f].state = "recording" => \/ op # None /\ op.folder = f
                                                    \/ f \in orph

Sound(fo, n, op, orph) ==
  /\ fo \in [FolderIds -> Folder] /\ n \in 0..MaxFolders
  /\ op \in Open \cup {None} /\ orph \subseteq FolderIds
  /\ Numbered(fo, n) /\ OwnFolder(fo, n, op) /\ Unmixed(fo) /\ Accounted(fo, op, orph)

DiskInv == Sound(folder, nfolders, open, orphans)

-----------------------------------------------------------------------------
\* What sealing, removing and growing a folder leave of its record.
LEMMA SealedRecord ==
  ASSUME NEW r \in Folder, NEW c \in BOOLEAN, r.state = "recording"
  PROVE  LET s == [r EXCEPT !.state = "final", !.classified = c]
         IN /\ s \in Folder /\ s.state = "final" /\ s.classified = c
            /\ s.uid = r.uid /\ s.raw = r.raw /\ s.holds = r.holds
BY DEF Folder

LEMMA RemovedRecord ==
  ASSUME NEW r \in Folder
  PROVE  LET s == [r EXCEPT !.state = "deleted"]
         IN /\ s \in Folder /\ s.state = "deleted" /\ s.classified = r.classified
            /\ s.uid = r.uid /\ s.raw = r.raw /\ s.holds = r.holds
BY DEF Folder

\* Every folder after a finalization, successful or not: sealed, removed or as it was.
LEMMA FolderAfterCases ==
  ASSUME folder \in [FolderIds -> Folder], NEW c \in BOOLEAN, NEW how, NEW gone,
         \A f \in gone : folder[f].state = "final",
         NEW f \in FolderIds
  PROVE  /\ FolderAfter(c, how, gone)[f] \in Folder
         /\ FolderAfter(c, how, gone)[f].uid = folder[f].uid
         /\ FolderAfter(c, how, gone)[f].holds = folder[f].holds
         /\ FolderAfter(c, how, gone)[f].state = "recording" => folder[f].state = "recording"
         /\ folder[f].state \notin {"recording", "final"} => FolderAfter(c, how, gone)[f] = folder[f]
         /\ f \notin gone =>
              FolderAfter(c, how, gone)[f].state =
                IF f = open.folder /\ Moved(how) /\ folder[f].state = "recording"
                THEN "final" ELSE folder[f].state
<1> DEFINE g == FolderAfter(c, how, gone)[f]
<1>0. folder[f] \in Folder
  OBVIOUS
<1>1. CASE f = open.folder /\ Moved(how) /\ folder[f].state = "recording"
  <2>1. g = [folder[f] EXCEPT !.state = "final", !.classified = c]
    BY <1>1 DEF FolderAfter
  <2> HIDE DEF g
  <2>2. /\ g \in Folder /\ g.state = "final" /\ g.uid = folder[f].uid /\ g.holds = folder[f].holds
    BY <1>0, <1>1, <2>1, SealedRecord
  <2> QED BY <1>1, <2>2 DEF g
<1>2. CASE ~(f = open.folder /\ Moved(how) /\ folder[f].state = "recording") /\ f \in gone
  <2>1. g = [folder[f] EXCEPT !.state = "deleted"]
    BY <1>2 DEF FolderAfter
  <2> HIDE DEF g
  <2>2. /\ g \in Folder /\ g.state = "deleted" /\ g.uid = folder[f].uid /\ g.holds = folder[f].holds
    BY <1>0, <2>1, RemovedRecord
  <2> QED BY <1>2, <2>2 DEF g
<1>3. CASE ~(f = open.folder /\ Moved(how) /\ folder[f].state = "recording") /\ f \notin gone
  <2>1. g = folder[f]
    BY <1>3 DEF FolderAfter
  <2> QED BY <1>0, <1>3, <2>1
<1> QED BY <1>1, <1>2, <1>3

\* Finalizing the open session, or failing to, keeps the export directory sound.
LEMMA FinalizedSound ==
  ASSUME DiskInv, open # None, NEW classified \in BOOLEAN, NEW how \in FinalizeOutcomes,
         NEW gone \in SUBSET (IF how = "ok" THEN Expired ELSE {})
  PROVE  /\ Sound(FolderAfter(classified, how, gone), nfolders, OpenAfter(how), orphans)
         /\ how = "ok" => OpenAfter(how) = None
<1> DEFINE fo == FolderAfter(classified, how, gone)
           op == OpenAfter(how)
<1>1. /\ open \in Open /\ folder \in [FolderIds -> Folder] /\ orphans \subseteq FolderIds
      /\ open.folder <= nfolders /\ folder[open.folder].uid = open.uid
      /\ folder[open.folder].state \in {"recording", "final"}
      /\ ~open.closed => folder[open.folder].state = "recording"
      /\ nfolders \in 0..MaxFolders
  BY DEF DiskInv, Sound, OwnFolder
<1>2. open.folder \in FolderIds /\ open.uid \in Uids /\ open.closed \in BOOLEAN
  BY <1>1 DEF Open
<1>3. \A f \in gone : f \in FolderIds /\ folder[f].state = "final" /\ how = "ok" /\ ~open.closed
  BY <1>2 DEF Expired, FinalizeOutcomes
<1>4. open.folder \notin gone
  BY <1>1, <1>3
<1>5. \A f \in FolderIds :
        /\ fo[f] \in Folder /\ fo[f].uid = folder[f].uid /\ fo[f].holds = folder[f].holds
        /\ fo[f].state = "recording" => folder[f].state = "recording"
        /\ folder[f].state \notin {"recording", "final"} => fo[f] = folder[f]
  BY <1>1, <1>3, FolderAfterCases
<1>6. fo[open.folder].state = IF Moved(how) THEN "final" ELSE folder[open.folder].state
  BY <1>1, <1>2, <1>3, <1>4, FolderAfterCases
<1>7. fo = [f \in FolderIds |-> fo[f]]
  BY DEF FolderAfter
<1>8. /\ Marked(how) => op = None
      /\ how = "close" => op = open
      /\ ~Marked(how) /\ how # "close" =>
           op \in Open /\ op.folder = open.folder /\ op.uid = open.uid /\ op.closed
  BY <1>1 DEF OpenAfter, Open, Marked
<1>9. how = "close" => ~Moved(how) /\ ~Marked(how) /\ ~open.closed
  BY <1>2 DEF Moved, Marked, FinalizeOutcomes
<1>10. Marked(how) => Moved(how)
  BY DEF Marked, Moved
<1> HIDE DEF fo, op
<1>11. fo \in [FolderIds -> Folder]
  BY <1>5, <1>7
<1>12. op \in Open \cup {None} /\ (how = "ok" => op = None)
  BY <1>1, <1>8 DEF Marked
<1>13. Numbered(fo, nfolders)
  <2>1. Absent.state \notin {"recording", "final"}
    BY DEF Absent
  <2>2. \A f \in FolderIds : f > nfolders => folder[f] = Absent
    BY DEF DiskInv, Sound, Numbered
  <2> QED BY <1>5, <2>1, <2>2 DEF Numbered
<1>14. Unmixed(fo)
  BY <1>5 DEF DiskInv, Sound, Unmixed
<1>15. OwnFolder(fo, nfolders, op)
  BY <1>1, <1>2, <1>5, <1>6, <1>8, <1>9 DEF OwnFolder
<1>16. Accounted(fo, op, orphans)
  <2> SUFFICES ASSUME NEW f \in FolderIds, fo[f].state = "recording", f \notin orphans
               PROVE  op # None /\ op.folder = f
    BY DEF Accounted
  <2>1. f = open.folder
    BY <1>5 DEF DiskInv, Sound, Accounted
  <2>2. ~Moved(how) /\ ~Marked(how)
    BY <2>1, <1>6, <1>10
  <2>3. op \in Open /\ op.folder = open.folder
    BY <2>2, <1>1, <1>8
  <2> QED BY <2>1, <2>3, NoneAssumption
<1>17. Sound(fo, nfolders, op, orphans)
  BY <1>1, <1>11, <1>12, <1>13, <1>14, <1>15, <1>16 DEF Sound
<1> QED BY <1>12, <1>17 DEF fo, op

\* A folder made for a session that had none keeps the export directory sound: the
\* recorder lets the folder it had open go only when that is finished.
LEMMA CreatedSound ==
  ASSUME NEW fo, NEW op, NEW rows, NEW orph, NEW n, n < MaxFolders,
         Sound(fo, n, op, orph), op = None, nfolders = n,
         NEW uid \in Uids, NEW how \in CreateOutcomes,
         pending \in Pending \cup {None}
  PROVE  LET s == Created(uid, [folder |-> fo, row |-> rows, open |-> op], how)
         IN /\ Sound(s.folder, s.nfolders, s.open, orph)
            /\ s.ok => /\ s.open # None /\ s.open.uid = uid /\ ~s.open.closed
                       /\ s.folder[s.open.folder].state = "recording"
            /\ s.pending \in Pending \cup {None}
<1> DEFINE s == Created(uid, [folder |-> fo, row |-> rows, open |-> op], how)
           k == n + 1
<1>1. CASE how = "create"
  <2>1. s.folder = fo /\ s.open = op /\ s.nfolders = n /\ s.ok = FALSE /\ s.pending = pending
    BY <1>1 DEF Created, Ends
  <2> HIDE DEF s
  <2> QED BY <2>1 DEF s
<1>2. CASE how # "create"
  <2>1. /\ s.folder = [fo EXCEPT ![k] = New(uid)] /\ s.open = Opened(uid)
        /\ s.nfolders = k /\ s.pending = None
    BY <1>2 DEF Created
  <2> DEFINE g == s.folder
             o == s.open
  <2> HIDE DEF s
  <2>2. k \in FolderIds /\ k \in 0..MaxFolders /\ n \in 0..MaxFolders /\ n \in Nat
    BY BoundsAssumption DEF FolderIds, Sound
  <2>3. /\ New(uid) \in Folder /\ New(uid).state = "recording"
        /\ New(uid).uid = uid /\ New(uid).holds = {}
    BY DEF New, Absent, Folder
  <2>4. o \in Open /\ o # None /\ o.folder = k /\ o.uid = uid /\ ~o.closed
    <3> DEFINE full == pending # None /\ pending.uid = uid /\ pending.full
    <3>0. full \in BOOLEAN
      OBVIOUS
    <3>1. Opened(uid) = [uid |-> uid, folder |-> k, closed |-> FALSE, full |-> full]
      BY DEF Opened
    <3> HIDE DEF full
    <3>2. Opened(uid) \in Open
      BY <2>2, <3>0, <3>1 DEF Open
    <3>3. Opened(uid).folder = k /\ Opened(uid).uid = uid /\ Opened(uid).closed = FALSE
      BY <3>1
    <3>4. Opened(uid) # None
      BY <3>2, NoneAssumption
    <3> QED BY <2>1, <3>2, <3>3, <3>4
  <2>5. fo \in [FolderIds -> Folder]
    BY DEF Sound
  <2>6. /\ g \in [FolderIds -> Folder] /\ g[k] = New(uid)
        /\ \A f \in FolderIds : f # k => g[f] = fo[f]
    BY <2>1, <2>2, <2>3, <2>5
  <2>7. Numbered(g, k)
    <3> SUFFICES ASSUME NEW f \in FolderIds, f > k PROVE g[f] = Absent
      BY DEF Numbered
    <3>1. f > n /\ f # k
      BY <2>2 DEF FolderIds
    <3> QED BY <3>1, <2>6 DEF Sound, Numbered
  <2>8. OwnFolder(g, k, o)
    BY <2>2, <2>3, <2>4, <2>6 DEF OwnFolder
  <2>9. Unmixed(g)
    BY <2>3, <2>6 DEF Sound, Unmixed
  <2>10. Accounted(g, o, orph)
    BY <2>4, <2>6 DEF Sound, Accounted
  <2>11. Sound(g, k, o, orph)
    BY <2>2, <2>4, <2>6, <2>7, <2>8, <2>9, <2>10 DEF Sound
  <2> QED BY <2>1, <2>3, <2>4, <2>6, <2>11 DEF s
<1> QED BY <1>1, <1>2

\* _ensure_session keeps the export directory sound whatever it does and however it
\* fails; when it succeeds on a session whose files are open, the folder is that
\* session's and still being recorded.
LEMMA EnsuredSound ==
  ASSUME DiskInv, nfolders < MaxFolders, pending \in Pending \cup {None},
         NEW uid \in Uids, NEW fin \in FinalizeOutcomes, NEW make \in CreateOutcomes,
         NEW gone \in SUBSET (IF fin = "ok" THEN Expired ELSE {})
  PROVE  LET s == Ensured(uid, fin, gone, make)
         IN /\ Sound(s.folder, s.nfolders, s.open, orphans)
            /\ s.pending \in Pending \cup {None}
            /\ s.ok => /\ s.open # None /\ s.open.uid = uid
                       /\ ~s.open.closed => s.folder[s.open.folder].state = "recording"
<1> DEFINE s == Ensured(uid, fin, gone, make)
<1>1. CASE IsCurrent(uid)
  <2>1. /\ s.folder = folder /\ s.nfolders = nfolders /\ s.open = open
        /\ s.pending = pending
    BY <1>1 DEF Ensured, Ends, Now
  <2>2. open # None /\ open.uid = uid
    BY <1>1 DEF IsCurrent
  <2>3. Sound(folder, nfolders, open, orphans) /\ OwnFolder(folder, nfolders, open)
    BY DEF DiskInv, Sound
  <2> HIDE DEF s
  <2>4. ~s.open.closed => s.folder[s.open.folder].state = "recording"
    BY <2>1, <2>2, <2>3 DEF OwnFolder
  <2> QED BY <2>1, <2>2, <2>3, <2>4 DEF s
<1>2. CASE ~IsCurrent(uid) /\ open = None
  <2>1. s = Created(uid, Now, make)
    BY <1>2 DEF Ensured
  <2>2. Sound(folder, nfolders, open, orphans)
    BY DEF DiskInv
  <2> DEFINE c == Created(uid, [folder |-> folder, row |-> row, open |-> open], make)
  <2>3. /\ Sound(c.folder, c.nfolders, c.open, orphans)
        /\ c.ok => /\ c.open # None /\ c.open.uid = uid /\ ~c.open.closed
                   /\ c.folder[c.open.folder].state = "recording"
        /\ c.pending \in Pending \cup {None}
    BY <1>2, <2>2, CreatedSound
  <2>4. s = c
    BY <2>1 DEF Now
  <2> HIDE DEF s, c
  <2> QED BY <2>3, <2>4 DEF s
<1>3. CASE ~IsCurrent(uid) /\ open # None /\ fin = "ok"
  <2> DEFINE fo == FolderAfter(FALSE, fin, gone)
             op == OpenAfter(fin)
             c == Created(uid, [folder |-> fo, row |-> RowAfter(fin), open |-> op], make)
  <2>1. s = c
    BY <1>3 DEF Ensured, Finalized
  <2>2. Sound(fo, nfolders, op, orphans) /\ op = None
    BY <1>3, FinalizedSound
  <2> HIDE DEF fo, op
  <2>3. /\ Sound(c.folder, c.nfolders, c.open, orphans)
        /\ c.ok => /\ c.open # None /\ c.open.uid = uid /\ ~c.open.closed
                   /\ c.folder[c.open.folder].state = "recording"
        /\ c.pending \in Pending \cup {None}
    BY <2>2, CreatedSound
  <2> HIDE DEF s, c
  <2> QED BY <2>1, <2>3 DEF s
<1>4. CASE ~IsCurrent(uid) /\ open # None /\ fin # "ok"
  <2>1. /\ s.folder = FolderAfter(FALSE, fin, gone) /\ s.open = OpenAfter(fin)
        /\ s.nfolders = nfolders /\ s.pending = pending /\ s.ok = FALSE
    BY <1>4 DEF Ensured, Ends, Finalized
  <2>2. Sound(FolderAfter(FALSE, fin, gone), nfolders, OpenAfter(fin), orphans)
    BY <1>4, FinalizedSound
  <2> HIDE DEF s
  <2> QED BY <2>1, <2>2 DEF s
<1> QED BY <1>1, <1>2, <1>3, <1>4

-----------------------------------------------------------------------------
(* Type correctness of the pieces the actions put together.                 *)

LEMMA RowAfterType ==
  ASSUME row \in [Uids -> Row], open \in Open, NEW how
  PROVE  RowAfter(how) \in [Uids -> Row]
<1>1. open.uid \in Uids /\ open.folder \in 0..MaxFolders
  BY BoundsAssumption DEF Open, FolderIds
<1>2. row[open.uid] \in Row /\ row[open.uid].finalized \in BOOLEAN
  BY <1>1 DEF Row
<1> DEFINE fin == Marked(how) \/ row[open.uid].finalized
           r == [folder |-> open.folder, path |-> "final", finalized |-> fin]
<1>3. fin \in BOOLEAN
  OBVIOUS
<1> HIDE DEF fin
<1>4. r \in Row
  BY <1>1, <1>3 DEF Row
<1>5. RowAfter(how) = row \/ RowAfter(how) = [row EXCEPT ![open.uid] = r]
  BY <1>1 DEF RowAfter, fin
<1> HIDE DEF r
<1> QED BY <1>1, <1>4, <1>5

\* register_session's upsert of the row of a session.
LEMMA RegisteredRowType ==
  ASSUME NEW rows \in [Uids -> Row], NEW uid \in Uids, NEW f \in 0..MaxFolders
  PROVE  [rows EXCEPT ![uid].folder = f, ![uid].path = "recording"] \in [Uids -> Row]
<1>1. [rows[uid] EXCEPT !.folder = f, !.path = "recording"] \in Row
  BY DEF Row
<1>2. [rows EXCEPT ![uid].folder = f, ![uid].path = "recording"]
        = [rows EXCEPT ![uid] = [rows[uid] EXCEPT !.folder = f, !.path = "recording"]]
  OBVIOUS
<1> QED BY <1>1, <1>2

LEMMA CreatedRowType ==
  ASSUME NEW fo, NEW rows \in [Uids -> Row], NEW op, NEW uid \in Uids, NEW make,
         nfolders + 1 \in 0..MaxFolders
  PROVE  Created(uid, [folder |-> fo, row |-> rows, open |-> op], make).row \in [Uids -> Row]
<1> DEFINE c == Created(uid, [folder |-> fo, row |-> rows, open |-> op], make)
<1>1. c.row = rows \/ c.row = [rows EXCEPT ![uid].folder = nfolders + 1, ![uid].path = "recording"]
  <2>1. CASE make = "create"
    BY <2>1 DEF Created, Ends
  <2>2. CASE make = "register"
    BY <2>2 DEF Created
  <2>3. CASE make \notin {"create", "register"}
    BY <2>3 DEF Created
  <2> QED BY <2>1, <2>2, <2>3
<1> HIDE DEF c
<1>2. [rows EXCEPT ![uid].folder = nfolders + 1, ![uid].path = "recording"] \in [Uids -> Row]
  BY RegisteredRowType
<1>3. c.row \in [Uids -> Row]
  BY <1>1, <1>2, Zenon
<1> QED BY <1>3 DEF c

LEMMA EnsuredRowType ==
  ASSUME row \in [Uids -> Row], open \in Open \cup {None}, NEW uid \in Uids,
         NEW fin, NEW make, NEW gone, nfolders + 1 \in 0..MaxFolders
  PROVE  Ensured(uid, fin, gone, make).row \in [Uids -> Row]
<1>1. CASE IsCurrent(uid)
  BY <1>1 DEF Ensured, Ends, Now
<1>2. CASE ~IsCurrent(uid) /\ open = None
  <2>1. Ensured(uid, fin, gone, make)
          = Created(uid, [folder |-> folder, row |-> row, open |-> open], make)
    BY <1>2 DEF Ensured, Now
  <2> QED BY <2>1, CreatedRowType
<1>3. CASE ~IsCurrent(uid) /\ open # None
  <2>1. RowAfter(fin) \in [Uids -> Row]
    BY <1>3, RowAfterType
  <2>2. CASE fin = "ok"
    <3>1. Ensured(uid, fin, gone, make)
            = Created(uid, [folder |-> FolderAfter(FALSE, fin, gone), row |-> RowAfter(fin),
                            open |-> OpenAfter(fin)], make)
      BY <1>3, <2>2 DEF Ensured, Finalized
    <3> QED BY <2>1, <3>1, CreatedRowType
  <2>3. CASE fin # "ok"
    <3>1. Ensured(uid, fin, gone, make).row = RowAfter(fin)
      BY <1>3, <2>3 DEF Ensured, Ends, Finalized
    <3> QED BY <2>1, <3>1
  <2> QED BY <2>2, <2>3
<1> QED BY <1>1, <1>2, <1>3

-----------------------------------------------------------------------------
(* The inductive invariant and its preservation, one lemma per action that  *)
(* does more than append to or take from the queue.                         *)

Inv == TypeOK /\ DiskInv

\* Put takes an item at the end of the queue, Take one from its front.
LEMMA PutType ==
  ASSUME queue \in Seq(Item), Len(queue) <= QueueSize, ~Full, NEW item \in Item
  PROVE  Append(queue, item) \in Seq(Item) /\ Len(Append(queue, item)) <= QueueSize
<1>1. Len(queue) < QueueSize /\ Len(queue) \in Nat /\ QueueSize \in Nat
  BY BoundsAssumption DEF Full
<1> QED BY <1>1, AppendProperties

LEMMA TakeType ==
  ASSUME queue \in Seq(Item), Len(queue) <= QueueSize, queue # <<>>
  PROVE  /\ Tail(queue) \in Seq(Item) /\ Len(Tail(queue)) <= QueueSize
         /\ Head(queue) \in Item
<1>1. /\ Head(queue) \in Item /\ Tail(queue) \in Seq(Item)
      /\ Len(Tail(queue)) = Len(queue) - 1
  BY HeadTailProperties
<1>2. Len(queue) \in Nat /\ QueueSize \in Nat
  BY BoundsAssumption
<1> QED BY <1>1, <1>2

LEMMA CountType ==
  ASSUME NEW c \in [DataKinds -> Nat], NEW kind \in DataKinds
  PROVE  [c EXCEPT ![kind] = @ + 1] \in [DataKinds -> Nat]
OBVIOUS

\* What a folder that takes one more item looks like.
LEMMA StoredRecord ==
  ASSUME NEW r \in Folder, NEW uid \in Uids, NEW kind
  PROVE  /\ Stored(r, kind, uid) \in Folder
         /\ Stored(r, kind, uid).state = r.state /\ Stored(r, kind, uid).uid = r.uid
         /\ Stored(r, kind, uid).holds = r.holds \cup {uid}
         /\ Stored(r, kind, uid).classified = r.classified
         /\ Stored(r, kind, uid).raw \in {r.raw, r.raw + 1}
<1> DEFINE n == IF kind = "raw" THEN r.raw + 1 ELSE r.raw
           h == r.holds \cup {uid}
<1>1. n \in Nat /\ h \in SUBSET Uids /\ n \in {r.raw, r.raw + 1}
  BY DEF Folder
<1>2. Stored(r, kind, uid) = [r EXCEPT !.raw = n, !.holds = h]
  BY DEF Stored
<1> HIDE DEF n, h
<1>3. LET s == [r EXCEPT !.raw = n, !.holds = h]
      IN /\ s \in Folder /\ s.state = r.state /\ s.uid = r.uid
         /\ s.holds = h /\ s.classified = r.classified /\ s.raw = n
  BY <1>1 DEF Folder
<1> QED BY <1>1, <1>2, <1>3 DEF h

\* An item written to the open folder of its own session keeps the directory sound.
LEMMA StoredSound ==
  ASSUME NEW fo, NEW n, NEW op, NEW orph, Sound(fo, n, op, orph), NEW kind,
         op # None, fo[op.folder].state = "recording"
  PROVE  Sound([fo EXCEPT ![op.folder] = Stored(fo[op.folder], kind, op.uid)], n, op, orph)
<1> DEFINE k == op.folder
           r == Stored(fo[k], kind, op.uid)
           g == [fo EXCEPT ![k] = r]
<1>1. /\ fo \in [FolderIds -> Folder] /\ op \in Open /\ k \in FolderIds /\ op.uid \in Uids
      /\ k <= n /\ n \in 0..MaxFolders /\ orph \subseteq FolderIds /\ fo[k].uid = op.uid
  BY DEF Sound, OwnFolder, Open
<1>2. fo[k] \in Folder
  BY <1>1
<1>3. /\ r \in Folder /\ r.state = "recording" /\ r.uid = op.uid
      /\ r.holds = fo[k].holds \cup {op.uid}
  BY <1>1, <1>2, StoredRecord
<1> HIDE DEF r
<1>4. /\ g \in [FolderIds -> Folder] /\ g[k] = r
      /\ \A f \in FolderIds : f # k => g[f] = fo[f]
  BY <1>1, <1>3
<1> HIDE DEF g
<1>5. Numbered(g, n)
  <2> SUFFICES ASSUME NEW f \in FolderIds, f > n PROVE g[f] = Absent
    BY DEF Numbered
  <2>1. f # k
    BY <1>1 DEF FolderIds
  <2> QED BY <1>4, <2>1 DEF Sound, Numbered
<1>6. OwnFolder(g, n, op)
  BY <1>1, <1>3, <1>4 DEF OwnFolder
<1>7. Unmixed(g)
  BY <1>1, <1>3, <1>4 DEF Sound, Unmixed
<1>8. Accounted(g, op, orph)
  BY <1>3, <1>4 DEF Sound, Accounted
<1>9. Sound(g, n, op, orph)
  BY <1>1, <1>4, <1>5, <1>6, <1>7, <1>8 DEF Sound
<1> QED BY <1>9 DEF g, r

-----------------------------------------------------------------------------
\* Writing a packet or a sample, with all that _ensure_session does for it, keeps the
\* invariant: also when a step of it fails and the worker dies half way.
LEMMA StoreDataInv ==
  ASSUME Inv, NEW kind \in DataKinds, StoreData(kind)
  PROVE  Inv'
<1>1. /\ queue \in Seq(Item) /\ Len(queue) <= QueueSize /\ queue # <<>>
      /\ Head(queue).kind = kind /\ queue' = Tail(queue)
      /\ receiver' = receiver /\ shutdown' = shutdown /\ offered' = offered /\ orphans' = orphans
      /\ nfolders < MaxFolders
  BY DEF StoreData, Take, Rest, Inv, TypeOK
<1>2. /\ queue' \in Seq(Item) /\ Len(queue') <= QueueSize /\ Head(queue) \in Item
  BY <1>1, TakeType
<1>3. Head(queue).uid \in Uids
  BY <1>1, <1>2 DEF Item, DataKinds
<1> DEFINE uid == Head(queue).uid
<1>4. PICK fin \in FinalizeOutcomes, make \in CreateOutcomes :
      \E gone \in SUBSET (IF fin = "ok" THEN Expired ELSE {}) :
        StoreInto(Ensured(uid, fin, gone, make), kind)
  BY DEF StoreData
<1>5. PICK gone \in SUBSET (IF fin = "ok" THEN Expired ELSE {}) :
        StoreInto(Ensured(uid, fin, gone, make), kind)
  BY <1>4
<1> DEFINE s == Ensured(uid, fin, gone, make)
<1>6. /\ Sound(s.folder, s.nfolders, s.open, orphans)
      /\ s.pending \in Pending \cup {None}
      /\ s.ok => /\ s.open # None /\ s.open.uid = uid
                 /\ ~s.open.closed => s.folder[s.open.folder].state = "recording"
  <2>1. DiskInv /\ nfolders < MaxFolders /\ pending \in Pending \cup {None}
    BY <1>1 DEF Inv, TypeOK
  <2>2. uid \in Uids
    BY <1>3
  <2> HIDE DEF uid
  <2> QED BY <2>1, <2>2, EnsuredSound
<1>7. s.row \in [Uids -> Row]
  <2>1. nfolders + 1 \in 0..MaxFolders
    BY <1>1, BoundsAssumption DEF Inv, TypeOK
  <2> QED BY <1>3, <2>1, EnsuredRowType DEF Inv, TypeOK
<1> HIDE DEF s
<1>8. /\ open' = s.open /\ pending' = s.pending /\ row' = s.row /\ nfolders' = s.nfolders
      /\ \/ /\ worker' = "dead" /\ folder' = s.folder
            /\ lost' = [lost EXCEPT ![kind] = @ + 1]
            /\ dropped' = dropped /\ written' = written
         \/ /\ worker' = Carry /\ folder' = s.folder
            /\ dropped' = [dropped EXCEPT ![kind] = @ + 1]
            /\ lost' = lost /\ written' = written
         \/ /\ s.ok /\ ~s.open.closed /\ worker' = Carry
            /\ folder' = [s.folder EXCEPT ![s.open.folder] = Stored(s.folder[s.open.folder], kind, uid)]
            /\ written' = [written EXCEPT ![kind] = @ + 1]
            /\ dropped' = dropped /\ lost' = lost
  <2>1. StoreInto(s, kind)
    BY <1>5 DEF s
  <2> QED BY <2>1 DEF StoreInto
<1>9. DiskInv'
  <2>1. Sound(folder', s.nfolders, s.open, orphans)
    BY <1>6, <1>8, StoredSound
  <2> QED BY <1>1, <1>8, <2>1 DEF DiskInv
<1>10. worker' \in {"off", "idle", "busy", "dead", "done"}
  BY <1>8 DEF Carry
<1>11. /\ dropped' \in [DataKinds -> Nat] /\ written' \in [DataKinds -> Nat]
       /\ lost' \in [DataKinds -> Nat] /\ offered' \in [DataKinds -> Nat]
  <2>1. /\ dropped \in [DataKinds -> Nat] /\ written \in [DataKinds -> Nat]
        /\ lost \in [DataKinds -> Nat] /\ offered \in [DataKinds -> Nat]
    BY DEF Inv, TypeOK
  <2>2. /\ [dropped EXCEPT ![kind] = @ + 1] \in [DataKinds -> Nat]
        /\ [written EXCEPT ![kind] = @ + 1] \in [DataKinds -> Nat]
        /\ [lost EXCEPT ![kind] = @ + 1] \in [DataKinds -> Nat]
    BY <2>1, CountType
  <2> QED BY <1>1, <1>8, <2>1, <2>2
<1>12. /\ folder' \in [FolderIds -> Folder] /\ nfolders' \in 0..MaxFolders
       /\ open' \in Open \cup {None} /\ orphans' \subseteq FolderIds
  BY <1>9 DEF DiskInv, Sound
<1>13. pending' \in Pending \cup {None} /\ row' \in [Uids -> Row]
  BY <1>6, <1>7, <1>8
<1>14. receiver' \in Receiver /\ shutdown' \in {"no", "cancelled", "putting", "awaiting", "answered", "stopped"}
  BY <1>1 DEF Inv, TypeOK
<1> QED BY <1>2, <1>9, <1>10, <1>11, <1>12, <1>13, <1>14 DEF Inv, TypeOK

\* Finalizing, by a finalize item or by the stop item, keeps the directory sound.
LEMMA ClosingInv ==
  ASSUME Inv, open # None, NEW classified \in BOOLEAN, NEW how \in FinalizeOutcomes,
         NEW gone \in SUBSET (IF how = "ok" THEN Expired ELSE {}),
         Closing(classified, how, gone), nfolders' = nfolders, orphans' = orphans
  PROVE  DiskInv' /\ row' \in [Uids -> Row]
<1>1. /\ folder' = FolderAfter(classified, how, gone) /\ open' = OpenAfter(how)
      /\ row' = RowAfter(how)
  BY DEF Closing, Finalized
<1>2. DiskInv /\ open \in Open /\ row \in [Uids -> Row]
  BY DEF Inv, TypeOK
<1>3. Sound(FolderAfter(classified, how, gone), nfolders, OpenAfter(how), orphans)
  BY <1>2, FinalizedSound
<1>4. RowAfter(how) \in [Uids -> Row]
  BY <1>2, RowAfterType
<1> QED BY <1>1, <1>3, <1>4 DEF DiskInv

LEMMA WorkFinalizeInv ==
  ASSUME Inv, WorkFinalize
  PROVE  Inv'
<1>1. /\ queue \in Seq(Item) /\ Len(queue) <= QueueSize /\ queue # <<>> /\ queue' = Tail(queue)
      /\ pending' = pending /\ nfolders' = nfolders /\ orphans' = orphans /\ shutdown' = shutdown
      /\ dropped' = dropped /\ offered' = offered /\ written' = written /\ lost' = lost
  BY DEF WorkFinalize, Take, Rest, counts, Inv, TypeOK
<1>2. queue' \in Seq(Item) /\ Len(queue') <= QueueSize
  BY <1>1, TakeType
<1>3. ASSUME NEW result \in {"none", "path", "error"}, NEW f \in 0..MaxFolders, Answer(result, f)
      PROVE  worker' \in {"off", "idle", "busy", "dead", "done"} /\ receiver' \in Receiver
  <2>1. receiver \in Receiver
    BY DEF Inv, TypeOK
  <2>2. [receiver EXCEPT !.pc = "answered", !.result = result, !.folder = f] \in Receiver
    BY <2>1 DEF Receiver
  <2> QED BY <1>3, <2>1, <2>2 DEF Answer, Carry
<1>4. CASE IsCurrent(Head(queue).uid)
  <2>1. open # None /\ open \in Open /\ open.folder \in 0..MaxFolders
    BY <1>4, BoundsAssumption DEF IsCurrent, Inv, TypeOK, Open, FolderIds
  <2>2. PICK how \in FinalizeOutcomes :
          \E gone \in SUBSET (IF how = "ok" THEN Expired ELSE {}) :
            /\ Closing(TRUE, how, gone)
            /\ IF how = "ok" THEN Answer("path", open.folder) ELSE Answer("error", 0)
    BY <1>4 DEF WorkFinalize
  <2>3. DiskInv' /\ row' \in [Uids -> Row]
    BY <1>1, <2>1, <2>2, ClosingInv
  <2>4. worker' \in {"off", "idle", "busy", "dead", "done"} /\ receiver' \in Receiver
    <3>1. 0 \in 0..MaxFolders
      BY BoundsAssumption
    <3> QED BY <1>3, <2>1, <2>2, <3>1
  <2>5. DiskInv' => /\ folder' \in [FolderIds -> Folder] /\ nfolders' \in 0..MaxFolders
                    /\ open' \in Open \cup {None} /\ orphans' \subseteq FolderIds
    BY DEF DiskInv, Sound
  <2> QED BY <1>1, <1>2, <2>3, <2>4, <2>5 DEF Inv, TypeOK
<1>5. CASE ~IsCurrent(Head(queue).uid)
  <2>1. Answer("none", 0) /\ folder' = folder /\ row' = row /\ open' = open
    BY <1>5 DEF WorkFinalize
  <2>2. worker' \in {"off", "idle", "busy", "dead", "done"} /\ receiver' \in Receiver
    <3>1. 0 \in 0..MaxFolders
      BY BoundsAssumption
    <3> QED BY <1>3, <2>1, <3>1
  <2>3. DiskInv'
    BY <1>1, <2>1 DEF Inv, DiskInv
  <2> QED BY <1>1, <1>2, <2>1, <2>2, <2>3 DEF Inv, TypeOK
<1> QED BY <1>4, <1>5

LEMMA WorkStopInv ==
  ASSUME Inv, WorkStop
  PROVE  Inv'
<1>1. /\ queue \in Seq(Item) /\ Len(queue) <= QueueSize /\ queue # <<>> /\ queue' = Tail(queue)
      /\ worker' = "done" /\ shutdown' = "answered" /\ receiver' = receiver
      /\ pending' = pending /\ nfolders' = nfolders /\ orphans' = orphans
      /\ dropped' = dropped /\ offered' = offered /\ written' = written /\ lost' = lost
  BY DEF WorkStop, Take, Rest, counts, Inv, TypeOK
<1>2. queue' \in Seq(Item) /\ Len(queue') <= QueueSize
  BY <1>1, TakeType
<1>3. CASE open = None
  <2>1. folder' = folder /\ row' = row /\ open' = open
    BY <1>3 DEF WorkStop
  <2>2. DiskInv'
    BY <1>1, <2>1 DEF Inv, DiskInv
  <2> QED BY <1>1, <1>2, <2>1, <2>2 DEF Inv, TypeOK
<1>4. CASE open # None
  <2>1. PICK how \in FinalizeOutcomes :
          \E gone \in SUBSET (IF how = "ok" THEN Expired ELSE {}) : Closing(FALSE, how, gone)
    BY <1>4 DEF WorkStop
  <2>2. DiskInv' /\ row' \in [Uids -> Row]
    BY <1>1, <1>4, <2>1, ClosingInv
  <2>3. DiskInv' => /\ folder' \in [FolderIds -> Folder] /\ nfolders' \in 0..MaxFolders
                    /\ open' \in Open \cup {None} /\ orphans' \subseteq FolderIds
    BY DEF DiskInv, Sound
  <2> QED BY <1>1, <1>2, <2>2, <2>3 DEF Inv, TypeOK
<1> QED BY <1>3, <1>4

LEMMA WorkMetadataInv ==
  ASSUME Inv, WorkMetadata
  PROVE  Inv'
<1> DEFINE m == Head(queue)
<1>1. /\ queue \in Seq(Item) /\ Len(queue) <= QueueSize /\ queue # <<>> /\ queue' = Tail(queue)
      /\ m.kind = "metadata"
      /\ folder' = folder /\ nfolders' = nfolders /\ orphans' = orphans
      /\ receiver' = receiver /\ shutdown' = shutdown
      /\ dropped' = dropped /\ offered' = offered /\ written' = written /\ lost' = lost
  BY DEF WorkMetadata, Take, Rest, counts, Inv, TypeOK
<1>2. queue' \in Seq(Item) /\ Len(queue') <= QueueSize /\ m \in Item
  BY <1>1, TakeType
<1>3. m.uid \in Uids /\ m.full \in BOOLEAN
  BY <1>1, <1>2 DEF Item, DataKinds
<1> HIDE DEF m
<1>4. CASE IsCurrent(m.uid)
  <2>1. /\ pending' = pending /\ worker' \in {"off", "idle", "busy", "dead", "done"}
        /\ open' = [open EXCEPT !.full = @ \/ m.full]
        /\ \/ row' = [row EXCEPT ![m.uid].folder = open.folder, ![m.uid].path = "recording"]
           \/ row' = row
    BY <1>4 DEF WorkMetadata, Carry, m
  <2>2. open \in Open /\ row \in [Uids -> Row]
    BY <1>4 DEF IsCurrent, Inv, TypeOK
  <2>3. row' \in [Uids -> Row]
    <3>1. open.folder \in 0..MaxFolders
      BY <2>2, BoundsAssumption DEF Open, FolderIds
    <3>2. [row EXCEPT ![m.uid].folder = open.folder, ![m.uid].path = "recording"] \in [Uids -> Row]
      BY <1>3, <2>2, <3>1, RegisteredRowType
    <3> QED BY <2>1, <2>2, <3>2, Zenon
  <2>4. /\ open' \in Open /\ open'.folder = open.folder /\ open'.uid = open.uid
        /\ open'.closed = open.closed
    <3> DEFINE full == open.full \/ m.full
    <3>1. full \in BOOLEAN /\ open' = [open EXCEPT !.full = full]
      BY <2>1
    <3> HIDE DEF full
    <3> QED BY <2>2, <3>1 DEF Open
  <2>5. open' # None /\ open # None
    BY <1>4, <2>4, NoneAssumption DEF IsCurrent
  <2>6. DiskInv'
    BY <1>1, <2>4, <2>5 DEF Inv, DiskInv, Sound, Numbered, OwnFolder, Unmixed, Accounted
  <2> QED BY <1>1, <1>2, <2>1, <2>3, <2>4, <2>6 DEF Inv, TypeOK
<1>5. CASE ~IsCurrent(m.uid)
  <2>1. /\ pending' = [uid |-> m.uid, full |-> m.full] /\ open' = open /\ row' = row
        /\ worker' \in {"off", "idle", "busy", "dead", "done"}
    BY <1>5 DEF WorkMetadata, Carry, m
  <2>2. pending' \in Pending
    BY <1>3, <2>1 DEF Pending
  <2>3. DiskInv'
    BY <1>1, <2>1 DEF Inv, DiskInv
  <2> QED BY <1>1, <1>2, <2>1, <2>2, <2>3 DEF Inv, TypeOK
<1> QED BY <1>4, <1>5

LEMMA RefuseDataInv ==
  ASSUME Inv, NEW kind \in DataKinds, RefuseData(kind)
  PROVE  Inv'
<1>1. /\ queue \in Seq(Item) /\ Len(queue) <= QueueSize /\ queue # <<>> /\ queue' = Tail(queue)
      /\ worker' \in {"off", "idle", "busy", "dead", "done"}
      /\ dropped' = [dropped EXCEPT ![kind] = @ + 1]
      /\ UNCHANGED <<open, pending, folder, nfolders, row, orphans, receiver, shutdown, offered, written, lost>>
  BY DEF RefuseData, Take, Rest, Carry, memory, disk, Inv, TypeOK
<1>2. queue' \in Seq(Item) /\ Len(queue') <= QueueSize
  BY <1>1, TakeType
<1>3. dropped' \in [DataKinds -> Nat]
  BY <1>1 DEF Inv, TypeOK
<1>4. DiskInv'
  BY <1>1 DEF Inv, DiskInv
<1> QED BY <1>1, <1>2, <1>3, <1>4 DEF Inv, TypeOK

\* The receive task's record, moved on.
LEMMA ReceiverMoves ==
  ASSUME NEW r \in Receiver
  PROVE  /\ [r EXCEPT !.pc = "gone"] \in Receiver
         /\ r.pc = "putting" => r.uid \in Uids /\ [r EXCEPT !.pc = "awaiting"] \in Receiver
<1>1. 0 \in 0..MaxFolders
  BY BoundsAssumption
<1>2. CASE r \in [pc : {"ready", "awaiting", "answered", "gone"}, uid : Uids \cup {None},
                  result : {"none", "path", "error"}, folder : 0..MaxFolders]
  <2>1. r.pc # "putting"
    BY <1>2
  <2>2. [r EXCEPT !.pc = "gone"] \in Receiver
    BY <1>2 DEF Receiver
  <2> QED BY <2>1, <2>2
<1>3. CASE r \in [pc : {"putting"}, uid : Uids, result : {"none"}, folder : {0}]
  <2>1. r.uid \in Uids
    BY <1>3
  <2>2. [r EXCEPT !.pc = "gone"] \in Receiver
    BY <1>1, <1>3 DEF Receiver
  <2>3. [r EXCEPT !.pc = "awaiting"] \in Receiver
    BY <1>1, <1>3 DEF Receiver
  <2> QED BY <2>1, <2>2, <2>3
<1> QED BY <1>2, <1>3 DEF Receiver

LEMMA ReceiverStarts ==
  /\ Ready \in Receiver
  /\ \A uid \in Uids : Asking("awaiting", uid) \in Receiver /\ Asking("putting", uid) \in Receiver
<1> 0 \in 0..MaxFolders
  BY BoundsAssumption
<1> QED BY DEF Ready, Asking, Receiver

\* The callers append at most one item, move the receive and the shutdown task and count.
LEMMA CallersInv ==
  ASSUME Inv, Receive \/ Resume \/ (\E uid \in Uids : EnqueueSample(uid)) \/ Shutdown
  PROVE  Inv'
<1> DEFINE Moves == /\ queue' \in Seq(Item) /\ Len(queue') <= QueueSize
                    /\ worker' \in {"off", "idle", "busy", "dead", "done"}
                    /\ receiver' \in Receiver
                    /\ shutdown' \in {"no", "cancelled", "putting", "awaiting", "answered", "stopped"}
                    /\ dropped' \in [DataKinds -> Nat] /\ offered' \in [DataKinds -> Nat]
                    /\ UNCHANGED <<open, pending, folder, nfolders, row, orphans, written, lost>>
<1>1. Moves => Inv'
  <2>1. Moves => DiskInv'
    BY DEF Inv, DiskInv
  <2> QED BY <2>1 DEF Inv, TypeOK
<1> USE DEF memory, disk, counts
<1>0. /\ queue \in Seq(Item) /\ Len(queue) <= QueueSize /\ receiver \in Receiver
      /\ worker \in {"off", "idle", "busy", "dead", "done"}
      /\ shutdown \in {"no", "cancelled", "putting", "awaiting", "answered", "stopped"}
      /\ dropped \in [DataKinds -> Nat] /\ offered \in [DataKinds -> Nat]
  BY DEF Inv, TypeOK
<1>2. ASSUME NEW kind \in DataKinds, NEW uid \in Uids, Offer(kind, uid)
      PROVE  Moves
  <2>1. [kind |-> kind, uid |-> uid] \in Item
    BY DEF Item
  <2>2. /\ [offered EXCEPT ![kind] = @ + 1] \in [DataKinds -> Nat]
        /\ [dropped EXCEPT ![kind] = @ + 1] \in [DataKinds -> Nat]
    BY <1>0, CountType
  <2> QED BY <1>0, <1>2, <2>1, <2>2, PutType DEF Offer
<1>3. ASSUME NEW uid \in Uids, NEW full \in BOOLEAN, UpdateMetadata(uid, full)
      PROVE  Moves
  <2>1. [kind |-> "metadata", uid |-> uid, full |-> full] \in Item
    BY DEF Item
  <2> QED BY <1>0, <1>3, <2>1, PutType DEF UpdateMetadata
<1>4. ASSUME NEW uid \in Uids, Finalize(uid)
      PROVE  Moves
  <2>1. [kind |-> "finalize", uid |-> uid] \in Item
    BY DEF Item
  <2>2. Asking("awaiting", uid) \in Receiver /\ Asking("putting", uid) \in Receiver
    BY ReceiverStarts
  <2> QED BY <1>0, <1>4, <2>1, <2>2, PutType DEF Finalize
<1>5. ASSUME Resume
      PROVE  Moves
  <2>1. CASE FinalizePut
    <3>1. receiver.uid \in Uids /\ [receiver EXCEPT !.pc = "awaiting"] \in Receiver
      BY <1>0, <2>1, ReceiverMoves DEF FinalizePut
    <3>2. [kind |-> "finalize", uid |-> receiver.uid] \in Item
      BY <3>1 DEF Item
    <3> QED BY <1>0, <2>1, <3>1, <3>2, PutType DEF FinalizePut
  <2>2. CASE FinalizeReturns
    <3>1. Ready \in Receiver
      BY ReceiverStarts
    <3> QED BY <1>0, <2>2, <3>1 DEF FinalizeReturns
  <2> QED BY <1>5, <2>1, <2>2 DEF Resume
<1>6. ASSUME Shutdown
      PROVE  Moves
  <2>1. [kind |-> "stop"] \in Item
    BY DEF Item
  <2>2. [receiver EXCEPT !.pc = "gone"] \in Receiver
    BY <1>0, ReceiverMoves
  <2> QED BY <1>0, <1>6, <2>1, <2>2, PutType DEF Shutdown, CancelReceiver, Stop, StopReturns
<1>7. Moves
  BY <1>2, <1>3, <1>4, <1>5, <1>6 DEF Receive, EnqueueRaw, EnqueueSample, DataKinds
<1> QED BY <1>1, <1>7

\* A process that ends leaves its open folder behind, which becomes an orphan.
LEMMA RestartInv ==
  ASSUME Inv, Restart
  PROVE  Inv'
<1>1. /\ folder' = folder /\ nfolders' = nfolders /\ row' = row
      /\ queue' = <<>> /\ worker' = "idle" /\ open' = None /\ pending' = None
      /\ receiver' = Ready /\ shutdown' = "no"
      /\ dropped' = Zero /\ offered' = Zero /\ written' = Zero /\ lost' = Zero
      /\ orphans' = orphans \cup {f \in FolderIds : folder[f].state = "recording"}
  BY DEF Restart
<1>2. DiskInv'
  BY <1>1 DEF Inv, DiskInv, Sound, Numbered, OwnFolder, Unmixed, Accounted
<1>3. Zero \in [DataKinds -> Nat] /\ Ready \in Receiver
  BY ReceiverStarts DEF Zero
<1>4. <<>> \in Seq(Item) /\ Len(<<>>) <= QueueSize
  BY BoundsAssumption
<1>5. orphans' \subseteq FolderIds
  BY <1>1 DEF Inv, TypeOK
<1> QED BY <1>1, <1>2, <1>3, <1>4, <1>5 DEF Inv, TypeOK

LEMMA InitInv == Init => Inv
<1> SUFFICES ASSUME Init PROVE Inv
  OBVIOUS
<1> USE DEF Init
<1>1. Absent \in Folder /\ Absent.state = "absent" /\ Absent.holds = {}
  BY DEF Absent, Folder
<1>2. NoRow \in Row
  BY BoundsAssumption DEF NoRow, Row
<1>3. Zero \in [DataKinds -> Nat] /\ Ready \in Receiver
  BY ReceiverStarts DEF Zero
<1>4. <<>> \in Seq(Item) /\ Len(<<>>) <= QueueSize /\ 0 \in 0..MaxFolders
  BY BoundsAssumption
<1>5. DiskInv
  BY <1>1, <1>4 DEF DiskInv, Sound, Numbered, OwnFolder, Unmixed, Accounted
<1> QED BY <1>1, <1>2, <1>3, <1>4, <1>5 DEF Inv, TypeOK

\* Whatever the interleaving of callers and worker, whatever fails and whenever the
\* process ends, the invariant holds.
THEOREM Invariance == Spec => []Inv
<1>1. ASSUME Inv, [Next]_vars PROVE Inv'
  <2>1. CASE Receive \/ Resume \/ (\E uid \in Uids : EnqueueSample(uid)) \/ Shutdown
    BY <1>1, <2>1, CallersInv
  <2>2. CASE Worker
    BY <1>1, <2>2, RefuseDataInv, StoreDataInv, WorkMetadataInv, WorkFinalizeInv, WorkStopInv DEF Worker
  <2>3. CASE Restart
    BY <1>1, <2>3, RestartInv
  <2>4. CASE UNCHANGED vars
    BY <1>1, <2>4 DEF Inv, TypeOK, DiskInv, vars
  <2> QED BY <1>1, <2>1, <2>2, <2>3, <2>4 DEF Next, Step
<1> QED BY InitInv, <1>1, PTL DEF Spec

\* Every variable keeps its type: in particular the queue never exceeds its size.
THEOREM TypeCorrect == Spec => []TypeOK
BY Invariance, PTL DEF Inv

\* No folder is left in recording state that the recorder does not hold open, unless the
\* process that wrote it has ended.
THEOREM PartialsSafe == Spec => []PartialsAreAccountedFor
<1>1. Inv => PartialsAreAccountedFor
  BY DEF Inv, DiskInv, Sound, Accounted, PartialsAreAccountedFor
<1> QED BY <1>1, Invariance, PTL

\* No folder ever holds an item of another session than its own.
THEOREM SessionsNeverMix == Spec => []NoMixing
<1>1. Inv => NoMixing
  BY DEF Inv, DiskInv, Sound, Unmixed, NoMixing
<1> QED BY <1>1, Invariance, PTL

-----------------------------------------------------------------------------
(* How many items of a kind a queue holds.                                  *)

\* The positions of a kind of item in a queue: Queued counts them.
Positions(q, k) == {i \in 1..Len(q) : q[i].kind = k}

\* A queue has finitely many positions.
LEMMA PositionsFinite ==
  ASSUME NEW q \in Seq(Item), NEW k
  PROVE  IsFiniteSet(Positions(q, k)) /\ Cardinality(Positions(q, k)) \in Nat
<1>1. Len(q) \in Nat /\ IsFiniteSet(1..Len(q))
  BY FS_Interval
<1>2. Positions(q, k) \in SUBSET (1..Len(q))
  BY DEF Positions
<1>3. IsFiniteSet(Positions(q, k))
  BY <1>1, <1>2, FS_Subset
<1> QED BY <1>3, FS_CardinalityType

\* An item put at the end is counted once, under its own kind.
LEMMA CountPut ==
  ASSUME NEW q \in Seq(Item), NEW item \in Item, NEW k
  PROVE  Cardinality(Positions(Append(q, item), k))
           = IF item.kind = k THEN Cardinality(Positions(q, k)) + 1
             ELSE Cardinality(Positions(q, k))
<1> DEFINE n == Len(q)
           q2 == Append(q, item)
<1>1. /\ n \in Nat /\ Len(q2) = n + 1 /\ q2[n + 1] = item
      /\ \A i \in 1..n : q2[i] = q[i]
  BY AppendProperties
<1>2. n + 1 \notin Positions(q, k)
  BY <1>1 DEF Positions
<1> HIDE DEF q2
<1>3. Positions(q2, k) = IF item.kind = k THEN Positions(q, k) \cup {n + 1} ELSE Positions(q, k)
  <2>1. ASSUME NEW i \in 1..(n + 1)
        PROVE  q2[i].kind = k <=> IF i = n + 1 THEN item.kind = k ELSE q[i].kind = k
    BY <1>1
  <2>2. 1..(n + 1) = (1..n) \cup {n + 1}
    BY <1>1
  <2>3. \A i : i \in Positions(q2, k) <=> i \in 1..(n + 1) /\ q2[i].kind = k
    BY <1>1 DEF Positions
  <2>4. \A i : i \in Positions(q, k) <=> i \in 1..n /\ q[i].kind = k
    BY DEF Positions
  <2>5. n + 1 \notin 1..n
    BY <1>1
  <2> HIDE DEF n
  <2>6. CASE item.kind = k
    BY <2>1, <2>2, <2>3, <2>4, <2>5, <2>6
  <2>7. CASE item.kind # k
    BY <2>1, <2>2, <2>3, <2>4, <2>5, <2>7
  <2> QED BY <2>6, <2>7
<1>4. CASE item.kind = k
  <2>1. IsFiniteSet(Positions(q, k))
    BY PositionsFinite
  <2> QED BY <1>2, <1>3, <1>4, <2>1, FS_AddElement DEF q2
<1>5. CASE item.kind # k
  BY <1>3, <1>5 DEF q2
<1> QED BY <1>4, <1>5

\* An item taken from the front is counted no more: the others move up by one.
LEMMA CountTake ==
  ASSUME NEW q \in Seq(Item), q # <<>>, NEW k
  PROVE  Cardinality(Positions(q, k))
           = IF Head(q).kind = k THEN Cardinality(Positions(Tail(q), k)) + 1
             ELSE Cardinality(Positions(Tail(q), k))
<1> DEFINE n == Len(q)
           t == Tail(q)
           behind == Positions(q, k) \ {1}
           f == [i \in Positions(t, k) |-> i + 1]
<1>1. /\ n \in Nat /\ n >= 1 /\ Len(t) = n - 1 /\ t \in Seq(Item) /\ Head(q) = q[1]
      /\ \A i \in 1..(n - 1) : t[i] = q[i + 1]
  BY HeadTailProperties, EmptySeq
<1> HIDE DEF t
<1>2. \A i : i \in Positions(t, k) <=> i \in 1..(n - 1) /\ q[i + 1].kind = k
  BY <1>1 DEF Positions
<1>3. \A i : i \in behind <=> i \in 2..n /\ q[i].kind = k
  BY <1>1 DEF Positions
<1> HIDE DEF n, behind
<1>4. f \in Bijection(Positions(t, k), behind)
  <2>1. f \in [Positions(t, k) -> behind]
    <3>1. \A i \in Positions(t, k) : i + 1 \in behind
      <4> SUFFICES ASSUME NEW i \in Positions(t, k) PROVE i + 1 \in behind
        OBVIOUS
      <4>1. i \in 1..(n - 1) /\ q[i + 1].kind = k
        BY <1>2
      <4>2. i + 1 \in 2..n
        BY <1>1, <4>1
      <4> QED BY <1>3, <4>1, <4>2
    <3> QED BY <3>1
  <2>2. \A i, j \in Positions(t, k) : f[i] = f[j] => i = j
    BY <1>1, <1>2
  <2>3. \A j \in behind : \E i \in Positions(t, k) : f[i] = j
    <3> SUFFICES ASSUME NEW j \in behind PROVE \E i \in Positions(t, k) : f[i] = j
      OBVIOUS
    <3>1. j - 1 \in Positions(t, k) /\ j \in Nat
      BY <1>1, <1>2, <1>3
    <3> QED BY <3>1
  <2> QED BY <2>1, <2>2, <2>3 DEF Bijection, Injection, Surjection, IsInjective
<1>5. /\ IsFiniteSet(Positions(t, k)) /\ IsFiniteSet(Positions(q, k))
      /\ Cardinality(Positions(t, k)) \in Nat /\ Cardinality(Positions(q, k)) \in Nat
  BY <1>1, PositionsFinite
<1>6. Cardinality(behind) = Cardinality(Positions(t, k))
  <2>1. ExistsBijection(Positions(t, k), behind)
    BY <1>4 DEF ExistsBijection
  <2> QED BY <1>5, <2>1, FS_Bijection
<1>7. Cardinality(behind) = IF 1 \in Positions(q, k) THEN Cardinality(Positions(q, k)) - 1
                                                     ELSE Cardinality(Positions(q, k))
  BY <1>5, FS_RemoveElement DEF behind
<1>8. 1 \in Positions(q, k) <=> Head(q).kind = k
  BY <1>1 DEF Positions, n
<1> QED BY <1>5, <1>6, <1>7, <1>8 DEF t

-----------------------------------------------------------------------------
(* The drop counters.                                                       *)

\* The counters of one kind of item balance with what is queued.
Balanced(kind, q, o, w, d, l) == o[kind] = w[kind] + Cardinality(Positions(q, kind)) + d[kind] + l[kind]

LEMMA DropsAsBalance ==
  DropsAreCounted <=> \A k \in DataKinds : Balanced(k, queue, offered, written, dropped, lost)
BY DEF DropsAreCounted, Queued, Balanced, Positions

\* A caller's item is in the queue or counted as dropped; the other callers' items are not data.
LEMMA CallersBalance ==
  ASSUME Inv, DropsAreCounted,
         Receive \/ Resume \/ (\E uid \in Uids : EnqueueSample(uid)) \/ Shutdown
  PROVE  DropsAreCounted'
<1> USE DEF memory, disk, counts
<1>0. /\ queue \in Seq(Item) /\ receiver \in Receiver
      /\ dropped \in [DataKinds -> Nat] /\ offered \in [DataKinds -> Nat]
      /\ written \in [DataKinds -> Nat] /\ lost \in [DataKinds -> Nat]
      /\ \A k \in DataKinds : Balanced(k, queue, offered, written, dropped, lost)
  BY DropsAsBalance DEF Inv, TypeOK
<1> DEFINE Kept == \A k \in DataKinds : Balanced(k, queue', offered', written', dropped', lost')
<1>1. Kept => DropsAreCounted'
  BY DEF DropsAreCounted, Queued, Balanced, Positions
<1>2. UNCHANGED <<queue, counts>> => Kept
  BY <1>0
<1>3. ASSUME NEW item \in Item, item.kind \notin DataKinds, queue' = Append(queue, item), UNCHANGED counts
      PROVE  Kept
  <2> SUFFICES ASSUME NEW k \in DataKinds
               PROVE  Balanced(k, queue', offered', written', dropped', lost')
    OBVIOUS
  <2>1. Cardinality(Positions(queue', k)) = Cardinality(Positions(queue, k))
    BY <1>0, <1>3, CountPut
  <2> QED BY <1>0, <1>3, <2>1 DEF Balanced
<1> HIDE DEF Kept
<1>4. ASSUME NEW kind \in DataKinds, NEW uid \in Uids, Offer(kind, uid)
      PROVE  Kept
  <2> DEFINE item == [kind |-> kind, uid |-> uid]
  <2>1. item \in Item /\ item.kind = kind
    BY DEF Item
  <2>2. offered' = [offered EXCEPT ![kind] = @ + 1] /\ written' = written /\ lost' = lost
    BY <1>4 DEF Offer
  <2>3. \/ dropped' = [dropped EXCEPT ![kind] = @ + 1] /\ queue' = queue
        \/ queue' = Append(queue, item) /\ dropped' = dropped
    BY <1>4 DEF Offer
  <2> HIDE DEF item
  <2> SUFFICES ASSUME NEW k \in DataKinds
               PROVE  Balanced(k, queue', offered', written', dropped', lost')
    BY DEF Kept
  <2>4. Cardinality(Positions(queue, k)) \in Nat
    BY <1>0, PositionsFinite
  <2>5. CASE dropped' = [dropped EXCEPT ![kind] = @ + 1] /\ queue' = queue
    BY <1>0, <2>2, <2>4, <2>5 DEF Balanced
  <2>6. CASE queue' = Append(queue, item) /\ dropped' = dropped
    <3>1. Cardinality(Positions(queue', k)) = IF k = kind THEN Cardinality(Positions(queue, k)) + 1
                                              ELSE Cardinality(Positions(queue, k))
      BY <1>0, <2>1, <2>6, CountPut
    <3> QED BY <1>0, <2>2, <2>4, <2>6, <3>1 DEF Balanced
  <2> QED BY <2>3, <2>5, <2>6
<1>5. ASSUME NEW uid \in Uids, NEW full \in BOOLEAN, UpdateMetadata(uid, full)
      PROVE  Kept
  <2>1. /\ [kind |-> "metadata", uid |-> uid, full |-> full] \in Item
        /\ [kind |-> "metadata", uid |-> uid, full |-> full].kind \notin DataKinds
    BY DEF Item, DataKinds
  <2> QED BY <1>3, <1>5, <2>1 DEF UpdateMetadata
<1>6. ASSUME NEW uid \in Uids
      PROVE  /\ [kind |-> "finalize", uid |-> uid] \in Item
             /\ [kind |-> "finalize", uid |-> uid].kind \notin DataKinds
  BY DEF Item, DataKinds
<1>7. ASSUME NEW uid \in Uids, Finalize(uid)
      PROVE  Kept
  BY <1>2, <1>3, <1>6, <1>7 DEF Finalize
<1>8. ASSUME Resume
      PROVE  Kept
  <2>1. CASE FinalizePut
    <3>1. receiver.uid \in Uids
      BY <1>0, <2>1, ReceiverMoves DEF FinalizePut
    <3> QED BY <1>3, <1>6, <2>1, <3>1 DEF FinalizePut
  <2>2. CASE FinalizeReturns
    BY <1>2, <2>2 DEF FinalizeReturns
  <2> QED BY <1>8, <2>1, <2>2 DEF Resume
<1>9. ASSUME Shutdown
      PROVE  Kept
  <2>1. [kind |-> "stop"] \in Item /\ [kind |-> "stop"].kind \notin DataKinds
    BY DEF Item, DataKinds
  <2> QED BY <1>2, <1>3, <1>9, <2>1 DEF Shutdown, CancelReceiver, Stop, StopReturns
<1>10. Kept
  BY <1>4, <1>5, <1>7, <1>8, <1>9 DEF Receive, EnqueueRaw, EnqueueSample, DataKinds
<1> QED BY <1>1, <1>10

\* The item the worker takes is written, dropped or lost with the worker.
LEMMA WorkerBalance ==
  ASSUME Inv, DropsAreCounted, Worker
  PROVE  DropsAreCounted'
<1>0. /\ queue \in Seq(Item)
      /\ dropped \in [DataKinds -> Nat] /\ offered \in [DataKinds -> Nat]
      /\ written \in [DataKinds -> Nat] /\ lost \in [DataKinds -> Nat]
      /\ \A k \in DataKinds : Balanced(k, queue, offered, written, dropped, lost)
  BY DropsAsBalance DEF Inv, TypeOK
<1> DEFINE Kept == \A k \in DataKinds : Balanced(k, queue', offered', written', dropped', lost')
<1>1. Kept => DropsAreCounted'
  BY DEF DropsAreCounted, Queued, Balanced, Positions
<1>2. ASSUME queue # <<>>, queue' = Tail(queue), NEW k
      PROVE  /\ Cardinality(Positions(queue, k)) =
                  IF Head(queue).kind = k THEN Cardinality(Positions(queue', k)) + 1
                  ELSE Cardinality(Positions(queue', k))
             /\ Cardinality(Positions(queue', k)) \in Nat
  <2>1. queue' \in Seq(Item)
    BY <1>0, <1>2, HeadTailProperties
  <2> QED BY <1>0, <1>2, <2>1, CountTake, PositionsFinite
<1>3. ASSUME NEW kind \in DataKinds, Take(kind), offered' = offered,
             \/ dropped' = [dropped EXCEPT ![kind] = @ + 1] /\ written' = written /\ lost' = lost
             \/ written' = [written EXCEPT ![kind] = @ + 1] /\ dropped' = dropped /\ lost' = lost
             \/ lost' = [lost EXCEPT ![kind] = @ + 1] /\ dropped' = dropped /\ written' = written
      PROVE  Kept
  <2> SUFFICES ASSUME NEW k \in DataKinds
               PROVE  Balanced(k, queue', offered', written', dropped', lost')
    OBVIOUS
  <2>1. queue # <<>> /\ queue' = Tail(queue) /\ Head(queue).kind = kind
    BY <1>3 DEF Take, Rest
  <2>2. /\ Cardinality(Positions(queue, k)) = IF k = kind THEN Cardinality(Positions(queue', k)) + 1
                                              ELSE Cardinality(Positions(queue', k))
        /\ Cardinality(Positions(queue', k)) \in Nat
    BY <1>2, <2>1
  <2>3. offered[k] = written[k] + Cardinality(Positions(queue, k)) + dropped[k] + lost[k]
    BY <1>0 DEF Balanced
  <2>4. /\ dropped[k] \in Nat /\ written[k] \in Nat /\ lost[k] \in Nat
    BY <1>0
  <2>5. \/ /\ dropped'[k] = (IF k = kind THEN dropped[k] + 1 ELSE dropped[k])
           /\ written'[k] = written[k] /\ lost'[k] = lost[k]
        \/ /\ written'[k] = (IF k = kind THEN written[k] + 1 ELSE written[k])
           /\ dropped'[k] = dropped[k] /\ lost'[k] = lost[k]
        \/ /\ lost'[k] = (IF k = kind THEN lost[k] + 1 ELSE lost[k])
           /\ dropped'[k] = dropped[k] /\ written'[k] = written[k]
    BY <1>0, <1>3
  <2> QED BY <1>3, <2>2, <2>3, <2>4, <2>5 DEF Balanced
<1>4. ASSUME NEW kind, kind \notin DataKinds, Take(kind), UNCHANGED counts
      PROVE  Kept
  <2> SUFFICES ASSUME NEW k \in DataKinds
               PROVE  Balanced(k, queue', offered', written', dropped', lost')
    OBVIOUS
  <2>1. queue # <<>> /\ queue' = Tail(queue) /\ Head(queue).kind # k
    BY <1>4 DEF Take, Rest
  <2>2. Cardinality(Positions(queue, k)) = Cardinality(Positions(queue', k))
    BY <1>2, <2>1
  <2> QED BY <1>0, <1>4, <2>2 DEF Balanced, counts
<1> HIDE DEF Kept
<1>5. ASSUME NEW kind \in DataKinds, RefuseData(kind)
      PROVE  Kept
  BY <1>3, <1>5 DEF RefuseData
<1>6. ASSUME NEW kind \in DataKinds, StoreData(kind)
      PROVE  Kept
  <2>1. Take(kind) /\ offered' = offered
    BY <1>6 DEF StoreData
  <2>2. PICK s : StoreInto(s, kind)
    BY <1>6 DEF StoreData
  <2>3. \/ dropped' = [dropped EXCEPT ![kind] = @ + 1] /\ written' = written /\ lost' = lost
        \/ written' = [written EXCEPT ![kind] = @ + 1] /\ dropped' = dropped /\ lost' = lost
        \/ lost' = [lost EXCEPT ![kind] = @ + 1] /\ dropped' = dropped /\ written' = written
    BY <2>2 DEF StoreInto
  <2> QED BY <1>3, <2>1, <2>3
<1>7. "metadata" \notin DataKinds /\ "finalize" \notin DataKinds /\ "stop" \notin DataKinds
  BY DEF DataKinds
<1>8. WorkMetadata \/ WorkFinalize \/ WorkStop => Kept
  BY <1>4, <1>7 DEF WorkMetadata, WorkFinalize, WorkStop
<1> QED BY <1>1, <1>5, <1>6, <1>8 DEF Worker

\* The drop counters the session summary reports are exact, whatever is refused, dropped
\* at a full queue or lost with a dying worker.
THEOREM CountersAreExact == Spec => []DropsAreCounted
<1>1. \A k \in DataKinds : Cardinality(Positions(<<>>, k)) = 0
  <2>1. \A k : Positions(<<>>, k) = {}
    BY DEF Positions
  <2> QED BY <2>1, FS_EmptySet
<1>2. \A k \in DataKinds : Balanced(k, <<>>, Zero, Zero, Zero, Zero)
  BY <1>1 DEF Balanced, Zero
<1>3. Init => DropsAreCounted
  BY <1>2, DropsAsBalance DEF Init
<1>4. ASSUME Inv, DropsAreCounted, [Next]_vars
      PROVE  DropsAreCounted'
  <2>1. CASE Receive \/ Resume \/ (\E uid \in Uids : EnqueueSample(uid)) \/ Shutdown
    BY <1>4, <2>1, CallersBalance
  <2>2. CASE Worker
    BY <1>4, <2>2, WorkerBalance
  <2>3. CASE Restart
    <3>1. /\ queue' = <<>> /\ offered' = Zero /\ written' = Zero
          /\ dropped' = Zero /\ lost' = Zero
      BY <2>3 DEF Restart
    <3> QED BY <1>2, <3>1 DEF DropsAreCounted, Queued, Balanced, Positions
  <2>4. CASE UNCHANGED vars
    BY <1>4, <2>4 DEF DropsAreCounted, Queued, vars
  <2> QED BY <1>4, <2>1, <2>2, <2>3, <2>4 DEF Next, Step
<1> QED BY <1>3, <1>4, Invariance, PTL DEF Spec

-----------------------------------------------------------------------------
(* The export directory implements RecordingArchive.                        *)

\* The folders fo a finalization leaves: the open one sealed if it was still being
\* recorded, finished ones that expired removed, the others kept.
Settled(fo) ==
  \A f \in FolderIds :
    \/ \E c \in BOOLEAN : f = Live /\ fo[f] = [folder[f] EXCEPT !.state = "final", !.classified = c]
    \/ folder[f].state = "final" /\ fo[f] = [folder[f] EXCEPT !.state = "deleted"]
    \/ fo[f] = folder[f]

LEMMA FinalizedSettles ==
  ASSUME Inv, open # None, NEW c \in BOOLEAN, NEW how \in FinalizeOutcomes,
         NEW gone \in SUBSET (IF how = "ok" THEN Expired ELSE {})
  PROVE  Settled(FolderAfter(c, how, gone))
<1> SUFFICES ASSUME NEW f \in FolderIds
             PROVE  LET g == FolderAfter(c, how, gone)[f]
                    IN \/ f = Live /\ g = [folder[f] EXCEPT !.state = "final", !.classified = c]
                       \/ folder[f].state = "final" /\ g = [folder[f] EXCEPT !.state = "deleted"]
                       \/ g = folder[f]
  BY DEF Settled
<1>1. \A x \in gone : folder[x].state = "final"
  BY DEF Expired
<1>2. CASE f = open.folder /\ Moved(how) /\ folder[f].state = "recording"
  BY <1>2 DEF FolderAfter, Live
<1>3. CASE ~(f = open.folder /\ Moved(how) /\ folder[f].state = "recording")
  BY <1>1, <1>3 DEF FolderAfter
<1> QED BY <1>2, <1>3

LEMMA NothingSettles == Settled(folder)
BY DEF Settled

LEMMA NextFolder ==
  ASSUME Inv, nfolders < MaxFolders
  PROVE  nfolders + 1 \in FolderIds /\ folder[nfolders + 1] = Absent
<1>1. nfolders \in 0..MaxFolders
  BY DEF Inv, TypeOK
<1>2. nfolders + 1 \in FolderIds /\ nfolders + 1 > nfolders
  BY <1>1, BoundsAssumption DEF FolderIds
<1> QED BY <1>2 DEF Inv, DiskInv, Sound, Numbered

\* The folder being recorded after a finalization, if one is, was the live one before.
LEMMA LiveAfter ==
  ASSUME Inv, open # None, NEW c \in BOOLEAN, NEW how \in FinalizeOutcomes,
         NEW gone \in SUBSET (IF how = "ok" THEN Expired ELSE {}),
         folder' = FolderAfter(c, how, gone), open' = OpenAfter(how)
  PROVE  Live' \in {Live, 0}
<1>1. /\ open \in Open /\ folder \in [FolderIds -> Folder]
  BY DEF Inv, TypeOK
<1>2. open.folder \in FolderIds
  BY <1>1 DEF Open
<1>3. open' # None => open'.folder = open.folder
  BY <1>1 DEF OpenAfter, Open
<1>4. \A x \in gone : folder[x].state = "final"
  BY DEF Expired
<1>5. folder'[open.folder].state = "recording" => folder[open.folder].state = "recording"
  BY <1>1, <1>2, <1>4, FolderAfterCases
<1> QED BY <1>3, <1>5 DEF Live

\* The archive's step, from what happened to each folder: at most one, of a number never
\* used before, is new.
LEMMA ArchiveMoves ==
  ASSUME Inv, Inv', NEW k,
         \A f \in FolderIds :
           \/ f = k /\ folder[f] = Absent
              /\ \E u \in Uids : Archive!Grows([Absent EXCEPT !.uid = u], folder'[f])
           \/ Archive!Sealed(f) \/ Archive!Removed(f) \/ Archive!Kept(f),
         \/ Live' \in {Live, 0}
         \/ Live' = k /\ k \in FolderIds /\ folder[k] = Absent
            /\ \E u \in Uids : Archive!Grows([Absent EXCEPT !.uid = u], folder'[k])
  PROVE  Archive!Next
<1>1. DOMAIN folder' = FolderIds
  BY DEF Inv, TypeOK
<1>2. Archive!Absent = Absent
  BY DEF Archive!Absent, Absent
<1>3. \A f \in FolderIds :
        Archive!Created(f) <=> folder[f] = Absent
                               /\ \E u \in Uids : Archive!Grows([Absent EXCEPT !.uid = u], folder'[f])
  BY <1>2 DEF Archive!Created
<1>4. \A f \in FolderIds : Archive!Created(f) \/ Archive!Sealed(f) \/ Archive!Removed(f) \/ Archive!Kept(f)
  BY <1>3
<1>5. ASSUME NEW f \in FolderIds, ~Archive!Kept(f), Archive!Created(f)
      PROVE  f = k
  <2>1. folder[f] = Absent /\ folder[f].state = "absent"
    <3>1. folder[f] = Absent
      BY <1>3, <1>5
    <3>2. Absent.state = "absent"
      BY DEF Absent
    <3> QED BY <3>1, <3>2
  <2>2. ~Archive!Removed(f)
    BY <2>1 DEF Archive!Removed
  <2>3. ~Archive!Sealed(f)
    <3>1. Live # 0 => folder[Live].state = "recording"
      BY DEF Live
    <3>2. f # 0
      BY DEF FolderIds
    <3> QED BY <2>1, <3>1, <3>2 DEF Archive!Sealed
  <2> QED BY <1>5, <2>2, <2>3
<1>6. Live' \in {Live, 0} \cup {f \in FolderIds : Archive!Created(f)}
  BY <1>3
<1>7. Live' # 0 => folder'[Live'].state = "recording"
  BY DEF Live
<1> QED BY <1>1, <1>4, <1>5, <1>6, <1>7 DEF Archive!Next

\* Finalizing the open session, by a finalize item or by the stop item.
LEMMA ClosingArchives ==
  ASSUME Inv, Inv', open # None, NEW c \in BOOLEAN, NEW how \in FinalizeOutcomes,
         NEW gone \in SUBSET (IF how = "ok" THEN Expired ELSE {}),
         folder' = FolderAfter(c, how, gone), open' = OpenAfter(how)
  PROVE  Archive!Next
<1>1. ASSUME NEW f \in FolderIds
      PROVE  Archive!Sealed(f) \/ Archive!Removed(f) \/ Archive!Kept(f)
  <2>1. Settled(folder')
    BY FinalizedSettles
  <2> QED BY <2>1 DEF Settled, Archive!Sealed, Archive!Removed, Archive!Kept
<1>2. Live' \in {Live, 0}
  BY LiveAfter
<1> QED BY <1>1, <1>2, ArchiveMoves

\* A folder made for a session, with or without its first item: fo are the folders after
\* the session that was open was finalized, if one was.
LEMMA CreatedArchives ==
  ASSUME Inv, Inv', nfolders < MaxFolders, NEW uid \in Uids, NEW kind,
         NEW fo \in [FolderIds -> Folder], NEW k, k = nfolders + 1,
         NEW made, made = [fo EXCEPT ![k] = New(uid)],
         Settled(fo),
         open' # None, open'.folder = k,
         folder' = made \/ folder' = [made EXCEPT ![k] = Stored(made[k], kind, uid)]
  PROVE  Archive!Next
<1>1. k \in FolderIds /\ folder[k] = Absent
  BY NextFolder
<1>3. New(uid) \in Folder /\ New(uid).state = "recording" /\ New(uid).uid = uid
      /\ New(uid).raw = 0 /\ New(uid).holds = {} /\ New(uid).classified = FALSE
  BY DEF New, Absent, Folder
<1>4. made[k] = New(uid) /\ \A f \in FolderIds : f # k => made[f] = fo[f]
  BY <1>1
<1>5. made \in [FolderIds -> Folder]
  BY <1>1, <1>3
<1>6. /\ folder'[k] \in {New(uid), Stored(New(uid), kind, uid)}
      /\ \A f \in FolderIds : f # k => folder'[f] = fo[f]
  BY <1>1, <1>4, <1>5
<1>7. Archive!Grows([Absent EXCEPT !.uid = uid], folder'[k]) /\ folder'[k].state = "recording"
  <2> DEFINE a == [Absent EXCEPT !.uid = uid]
  <2>1. a.uid = uid /\ a.raw = 0 /\ a.holds = {} /\ a.classified = FALSE
    BY DEF Absent
  <2> HIDE DEF a
  <2>2. CASE folder'[k] = New(uid)
    BY <1>3, <2>1, <2>2 DEF Archive!Grows, a
  <2>3. CASE folder'[k] = Stored(New(uid), kind, uid)
    <3> DEFINE r == New(uid)
               s == Stored(r, kind, uid)
    <3>0. r \in Folder
      BY <1>3
    <3> HIDE DEF r
    <3>1. /\ s.state = r.state /\ s.uid = r.uid /\ s.holds = r.holds \cup {uid}
          /\ s.classified = r.classified /\ s.raw \in {r.raw, r.raw + 1}
      BY <3>0, StoredRecord
    <3> HIDE DEF s
    <3>2. /\ s.state = "recording" /\ s.uid = uid /\ s.holds = {} \cup {uid}
          /\ s.classified = FALSE /\ s.raw \in {0, 0 + 1}
      BY <1>3, <3>1 DEF r
    <3>3. folder'[k] = s
      BY <2>3 DEF r, s
    <3> QED BY <2>1, <3>2, <3>3 DEF Archive!Grows, a
  <2> QED BY <1>6, <2>2, <2>3
<1>8. Live' = k
  BY <1>7 DEF Live
<1>9. ASSUME NEW f \in FolderIds, f # k
      PROVE  Archive!Sealed(f) \/ Archive!Removed(f) \/ Archive!Kept(f)
  BY <1>6, <1>9 DEF Settled, Archive!Sealed, Archive!Removed, Archive!Kept
<1>10. \E u \in Uids : Archive!Grows([Absent EXCEPT !.uid = u], folder'[k])
  BY <1>7
<1>11. \A f \in FolderIds :
         \/ f = k /\ folder[f] = Absent
            /\ \E u \in Uids : Archive!Grows([Absent EXCEPT !.uid = u], folder'[f])
         \/ Archive!Sealed(f) \/ Archive!Removed(f) \/ Archive!Kept(f)
  BY <1>1, <1>9, <1>10
<1> QED BY <1>1, <1>8, <1>10, <1>11, ArchiveMoves

\* The session _ensure_session opens: with its own new folder and open files.
LEMMA OpenedType ==
  ASSUME Inv, NEW uid \in Uids, nfolders < MaxFolders
  PROVE  /\ Opened(uid) \in Open /\ Opened(uid) # None
         /\ Opened(uid).folder = nfolders + 1 /\ Opened(uid).uid = uid /\ Opened(uid).closed = FALSE
<1> DEFINE full == pending # None /\ pending.uid = uid /\ pending.full
<1>1. full \in BOOLEAN
  BY DEF Inv, TypeOK, Pending
<1>2. nfolders + 1 \in FolderIds
  BY BoundsAssumption DEF FolderIds, Inv, TypeOK
<1>3. Opened(uid) = [uid |-> uid, folder |-> nfolders + 1, closed |-> FALSE, full |-> full]
  BY DEF Opened
<1> HIDE DEF full
<1>4. Opened(uid) \in Open
  BY <1>1, <1>2, <1>3 DEF Open
<1>5. Opened(uid) # None
  BY <1>4, NoneAssumption
<1> QED BY <1>3, <1>4, <1>5

LEMMA NewFolder ==
  ASSUME NEW fo, NEW rows, NEW op, NEW uid, NEW make, make # "create"
  PROVE  LET s == Created(uid, [folder |-> fo, row |-> rows, open |-> op], make)
         IN s.folder = [fo EXCEPT ![nfolders + 1] = New(uid)] /\ s.open = Opened(uid)
BY DEF Created

\* A packet or a sample: stored in the open folder, or in one just created after the other
\* session's was sealed, or nowhere because a step failed or the cap refused it.
LEMMA StoreDataArchives ==
  ASSUME Inv, Inv', NEW kind \in DataKinds, StoreData(kind)
  PROVE  Archive!Next \/ UNCHANGED Archive!archive
<1> DEFINE uid == Head(queue).uid
<1>1. /\ nfolders < MaxFolders /\ uid \in Uids
  <2>1. queue \in Seq(Item) /\ queue # <<>> /\ Head(queue).kind = kind
    BY DEF StoreData, Take, Inv, TypeOK
  <2>2. Head(queue) \in Item
    BY <2>1, HeadTailProperties
  <2>3. uid \in Uids
    BY <2>1, <2>2 DEF Item, DataKinds
  <2> QED BY <2>3 DEF StoreData
<1>2. PICK fin \in FinalizeOutcomes, make \in CreateOutcomes :
      \E gone \in SUBSET (IF fin = "ok" THEN Expired ELSE {}) :
        StoreInto(Ensured(uid, fin, gone, make), kind)
  BY DEF StoreData
<1>3. PICK gone \in SUBSET (IF fin = "ok" THEN Expired ELSE {}) :
        StoreInto(Ensured(uid, fin, gone, make), kind)
  BY <1>2
<1> DEFINE s == Ensured(uid, fin, gone, make)
<1>4. /\ open' = s.open
      /\ \/ folder' = s.folder
         \/ /\ s.ok /\ ~s.open.closed
            /\ folder' = [s.folder EXCEPT ![s.open.folder] = Stored(s.folder[s.open.folder], kind, uid)]
  <2> HIDE DEF s
  <2>1. StoreInto(s, kind)
    BY <1>3 DEF s
  <2> QED BY <2>1 DEF StoreInto
<1>5. CASE IsCurrent(uid)
  <2>1. s.folder = folder /\ s.open = open
    BY <1>5 DEF Ensured, Ends, Now
  <2>2. open # None /\ open.uid = uid /\ open \in Open
    BY <1>5 DEF IsCurrent, Inv, TypeOK
  <2> HIDE DEF s
  <2>3. CASE folder' = folder
    <3>1. Live' = Live
      BY <1>4, <2>1, <2>3 DEF Live
    <3> QED BY <2>3, <3>1 DEF Archive!archive
  <2>4. CASE ~open.closed /\ folder' = [folder EXCEPT ![open.folder] = Stored(folder[open.folder], kind, uid)]
    <3> DEFINE k == open.folder
    <3>1. k \in FolderIds /\ folder \in [FolderIds -> Folder] /\ folder[k] \in Folder
      BY <2>2 DEF Open, Inv, TypeOK
    <3>2. folder[k].state = "recording" /\ folder[k].uid = uid
      BY <2>2, <2>4 DEF Inv, DiskInv, Sound, OwnFolder
    <3>3. folder'[k] = Stored(folder[k], kind, uid) /\ \A f \in FolderIds : f # k => folder'[f] = folder[f]
      BY <2>4, <3>1
    <3>4. Archive!Grows(folder[k], folder'[k]) /\ folder'[k].state = "recording"
      BY <1>1, <3>1, <3>2, <3>3, StoredRecord DEF Archive!Grows
    <3>5. Live = k /\ Live' = k
      BY <1>4, <2>1, <2>2, <3>2, <3>4 DEF Live
    <3> HIDE DEF k
    <3>6. \A f \in FolderIds : Archive!Grown(f) \/ Archive!Kept(f)
      BY <3>3, <3>4, <3>5 DEF Archive!Grown, Archive!Kept
    <3>7. \A f \in FolderIds : f # k => Archive!Kept(f)
      BY <3>3 DEF Archive!Kept
    <3>8. DOMAIN folder' = FolderIds
      BY DEF Inv, TypeOK
    <3> QED BY <3>4, <3>5, <3>6, <3>7, <3>8 DEF Archive!Next
  <2> QED BY <1>4, <2>1, <2>3, <2>4
<1>6. CASE ~IsCurrent(uid) /\ open = None
  <2>1. s = Created(uid, [folder |-> folder, row |-> row, open |-> open], make)
    BY <1>6 DEF Ensured, Now
  <2>2. CASE make = "create"
    <3>1. s.folder = folder /\ s.open = open /\ s.ok = FALSE
      BY <2>1, <2>2 DEF Created, Ends
    <3> HIDE DEF s
    <3>2. folder' = folder /\ open' = open
      BY <1>4, <3>1
    <3> QED BY <3>2 DEF Archive!archive, Live
  <2>3. CASE make # "create"
    <3>1. s.folder = [folder EXCEPT ![nfolders + 1] = New(uid)] /\ s.open = Opened(uid)
      BY <2>1, <2>3, NewFolder
    <3>2. s.open.folder = nfolders + 1 /\ s.open # None
      BY <1>1, <3>1, OpenedType
    <3> HIDE DEF s, uid
    <3>3. folder \in [FolderIds -> Folder]
      BY DEF Inv, TypeOK
    <3>4. folder' = s.folder \/ folder' = [s.folder EXCEPT ![nfolders + 1] = Stored(s.folder[nfolders + 1], kind, uid)]
      BY <1>4, <3>2
    <3> QED BY <1>1, <1>4, <3>1, <3>2, <3>3, <3>4, NothingSettles, CreatedArchives
  <2> QED BY <2>2, <2>3
<1>7. CASE ~IsCurrent(uid) /\ open # None /\ fin = "ok"
  <2> DEFINE fo == FolderAfter(FALSE, fin, gone)
  <2>1. s = Created(uid, [folder |-> fo, row |-> RowAfter(fin), open |-> OpenAfter(fin)], make)
    BY <1>7 DEF Ensured, Finalized
  <2>2. CASE make = "create"
    <3>1. s.folder = fo /\ s.open = OpenAfter(fin) /\ s.ok = FALSE
      <4> HIDE DEF s, fo, uid
      <4> QED BY <2>1, <2>2 DEF Created, Ends
    <3> HIDE DEF s
    <3>2. folder' = fo /\ open' = OpenAfter(fin)
      BY <1>4, <3>1
    <3> QED BY <1>7, <3>2, ClosingArchives
  <2>3. CASE make # "create"
    <3>1. s.folder = [fo EXCEPT ![nfolders + 1] = New(uid)] /\ s.open = Opened(uid)
      <4> HIDE DEF s, fo, uid
      <4> QED BY <2>1, <2>3, NewFolder
    <3>2. s.open.folder = nfolders + 1 /\ s.open # None
      BY <1>1, <3>1, OpenedType
    <3>3. fo \in [FolderIds -> Folder]
      BY <1>7, FinalizedSound DEF Inv, Sound
    <3>4. Settled(fo)
      BY <1>7, FinalizedSettles
    <3> HIDE DEF s, uid, fo
    <3>5. folder' = s.folder \/ folder' = [s.folder EXCEPT ![nfolders + 1] = Stored(s.folder[nfolders + 1], kind, uid)]
      BY <1>4, <3>2
    <3> QED BY <1>1, <1>4, <3>1, <3>2, <3>3, <3>4, <3>5, CreatedArchives
  <2> QED BY <2>2, <2>3
<1>8. CASE ~IsCurrent(uid) /\ open # None /\ fin # "ok"
  <2>1. s.folder = FolderAfter(FALSE, fin, gone) /\ s.open = OpenAfter(fin) /\ s.ok = FALSE
    BY <1>8 DEF Ensured, Ends, Finalized
  <2> HIDE DEF s
  <2>2. folder' = FolderAfter(FALSE, fin, gone) /\ open' = OpenAfter(fin)
    BY <1>4, <2>1
  <2> QED BY <1>8, <2>2, ClosingArchives
<1> QED BY <1>5, <1>6, <1>7, <1>8

\* Every step of the recorder, and the end of its process, is a step of the archive or
\* leaves it as it is.
LEMMA ArchiveStep ==
  ASSUME Inv, Inv', [Next]_vars
  PROVE  Archive!Next \/ UNCHANGED Archive!archive
<1>1. folder' = folder /\ open' = open => UNCHANGED Archive!archive
  BY DEF Archive!archive, Live
<1>2. CASE Receive \/ Resume \/ (\E uid \in Uids : EnqueueSample(uid)) \/ Shutdown
  <2>1. folder' = folder /\ open' = open
    BY <1>2 DEF Receive, EnqueueRaw, EnqueueSample, Offer, UpdateMetadata, Finalize, Resume,
                FinalizePut, FinalizeReturns, Shutdown, CancelReceiver, Stop, StopReturns, disk, memory
  <2> QED BY <1>1, <2>1
<1>3. CASE Worker
  <2>1. ASSUME NEW kind \in DataKinds, RefuseData(kind)
        PROVE  UNCHANGED Archive!archive
    BY <1>1, <2>1 DEF RefuseData, disk, memory
  <2>2. ASSUME WorkMetadata
        PROVE  UNCHANGED Archive!archive
    <3>1. folder' = folder /\ (open' = open \/ (open # None /\ open' = [open EXCEPT !.full = @ \/ Head(queue).full]))
      BY <2>2 DEF WorkMetadata, IsCurrent
    <3>2. CASE open # None /\ open' = [open EXCEPT !.full = @ \/ Head(queue).full]
      <4>1. open \in Open
        BY <3>2 DEF Inv, TypeOK
      <4>2. open'.folder = open.folder /\ open' \in Open \cup {None} /\ open'.uid = open.uid
        BY <3>2, <4>1 DEF Inv, TypeOK, Open
      <4>3. open' # None
        <5> DEFINE b == open.full \/ Head(queue).full
        <5>1. b \in BOOLEAN /\ open' = [open EXCEPT !.full = b]
          BY <3>2
        <5> HIDE DEF b
        <5>2. open' \in Open
          BY <4>1, <5>1 DEF Open
        <5> QED BY <5>2, NoneAssumption
      <4> QED BY <3>1, <3>2, <4>2, <4>3 DEF Archive!archive, Live
    <3> QED BY <1>1, <3>1, <3>2
  <2>3. ASSUME NEW c \in BOOLEAN, open # None, NEW how \in FinalizeOutcomes,
               NEW gone \in SUBSET (IF how = "ok" THEN Expired ELSE {}), Closing(c, how, gone)
        PROVE  Archive!Next
    BY <2>3, ClosingArchives DEF Closing, Finalized
  <2>4. ASSUME WorkFinalize
        PROVE  Archive!Next \/ UNCHANGED Archive!archive
    BY <1>1, <2>3, <2>4 DEF WorkFinalize, IsCurrent
  <2>5. ASSUME WorkStop
        PROVE  Archive!Next \/ UNCHANGED Archive!archive
    BY <1>1, <2>3, <2>5 DEF WorkStop
  <2> QED BY <1>3, <2>1, <2>2, <2>4, <2>5, StoreDataArchives DEF Worker
<1>4. CASE Restart
  <2>1. folder' = folder /\ Live' = 0
    BY <1>4 DEF Restart, Live
  <2>2. \A f \in FolderIds : Archive!Kept(f)
    BY <2>1 DEF Archive!Kept
  <2> QED BY <2>1, <2>2, ArchiveMoves
<1>5. CASE UNCHANGED vars
  BY <1>1, <1>5 DEF vars
<1> QED BY <1>2, <1>3, <1>4, <1>5 DEF Next, Step

\* The recorder implements the archive: through failed finalizations, the end of the process
\* at any point, retention and sessions recorded again, a sealed export never changes, nothing
\* is removed before it is sealed and one folder at most is being written.
THEOREM ImplementsArchive == Spec => RefinesArchive
<1>1. Init => Archive!Init
  BY DEF Init, Archive!Init, Live, Absent, Archive!Absent
<1>2. Inv /\ Inv' /\ [Next]_vars => [Archive!Next]_(Archive!archive)
  BY ArchiveStep
<1> QED BY <1>1, <1>2, Invariance, PTL DEF Spec, RefinesArchive, Archive!Spec

-----------------------------------------------------------------------------
(* The answers of finalize() and the shutdown.                              *)

\* finalize()'s item is in the queue only while its caller awaits the answer, and alone;
\* a receive task that was cancelled may have left one behind.
Asked(q, r) ==
  /\ r.pc \in {"ready", "putting", "answered"} => \A i \in 1..Len(q) : q[i].kind # "finalize"
  /\ r.pc = "awaiting" =>
       \A i \in 1..Len(q) : q[i].kind = "finalize" =>
         q[i].uid = r.uid /\ \A j \in 1..Len(q) : q[j].kind = "finalize" => i = j

\* The stop item is the last of its process; when it was answered the queue is empty.
StopIsLast(q, s) ==
  /\ \A i \in 1..Len(q) : q[i].kind = "stop" => i = Len(q) /\ s = "awaiting"
  /\ s \in {"answered", "stopped"} => q = <<>>

\* The receive task is cancelled before the recorder is stopped.
ReceiverFirst(r, s) == s # "no" => r.pc = "gone"

FlowInv == Asked(queue, receiver) /\ StopIsLast(queue, shutdown) /\ ReceiverFirst(receiver, shutdown)

Waiting == {"no", "cancelled", "putting"}

LEMMA PutFlow ==
  ASSUME NEW q \in Seq(Item), NEW item \in Item
  PROVE  LET p == Append(q, item)
         IN /\ \A r : Asked(q, r) /\ item.kind # "finalize" => Asked(p, r)
            /\ \A r, s : /\ Asked(q, r) /\ r.pc \in {"ready", "putting"}
                         /\ item.kind = "finalize" /\ s.pc = "awaiting" /\ s.uid = item.uid
                         => Asked(p, s)
            /\ \A s : StopIsLast(q, s) /\ s \in Waiting =>
                        /\ item.kind # "stop" => StopIsLast(p, s)
                        /\ StopIsLast(p, "awaiting")
<1> DEFINE n == Len(q)
           p == Append(q, item)
<1>1. /\ n \in Nat /\ Len(p) = n + 1 /\ p[n + 1] = item
      /\ \A i \in 1..n : p[i] = q[i]
  BY AppendProperties
<1>2. \A i \in 1..(n + 1) : i = n + 1 \/ i \in 1..n
  BY <1>1
<1> HIDE DEF p
<1>3. ASSUME NEW r, Asked(q, r), item.kind # "finalize"
      PROVE  Asked(p, r)
  BY <1>1, <1>2, <1>3 DEF Asked
<1>4. ASSUME NEW r, NEW s, Asked(q, r), r.pc \in {"ready", "putting"},
             item.kind = "finalize", s.pc = "awaiting", s.uid = item.uid
      PROVE  Asked(p, s)
  BY <1>1, <1>2, <1>4 DEF Asked
<1>5. ASSUME NEW s, StopIsLast(q, s), s \in Waiting
      PROVE  /\ item.kind # "stop" => StopIsLast(p, s)
             /\ StopIsLast(p, "awaiting")
  <2>1. \A i \in 1..n : p[i].kind # "stop"
    BY <1>1, <1>5 DEF StopIsLast, Waiting
  <2>2. s \notin {"answered", "stopped"}
    BY <1>5 DEF Waiting
  <2>3. \A i \in 1..Len(p) : p[i].kind = "stop" => i = n + 1 /\ item.kind = "stop"
    BY <1>1, <1>2, <2>1
  <2> QED BY <1>1, <2>2, <2>3 DEF StopIsLast
<1> QED BY <1>3, <1>4, <1>5 DEF p

LEMMA TakeFlow ==
  ASSUME NEW q \in Seq(Item), q # <<>>
  PROVE  /\ \A r : Asked(q, r) => Asked(Tail(q), r)
         /\ \A r : Asked(q, r) /\ Head(q).kind = "finalize" /\ r.pc # "gone" /\ r \in Receiver =>
                     /\ r.pc = "awaiting" /\ r.uid = Head(q).uid
                     /\ \A s : s.pc = "answered" => Asked(Tail(q), s)
         /\ \A s : StopIsLast(q, s) => StopIsLast(Tail(q), s)
         /\ \A s : StopIsLast(q, s) /\ Head(q).kind = "stop" => StopIsLast(Tail(q), "answered")
<1> DEFINE n == Len(q)
           t == Tail(q)
<1>1. /\ n \in Nat /\ n >= 1 /\ Len(t) = n - 1 /\ t \in Seq(Item) /\ Head(q) = q[1]
      /\ \A i \in 1..(n - 1) : t[i] = q[i + 1]
  BY HeadTailProperties, EmptySeq
<1>2. \A i \in 1..(n - 1) : i + 1 \in 1..n /\ i + 1 # 1
  BY <1>1
<1>3. 1 \in 1..n
  BY <1>1
<1> HIDE DEF t
<1>4. ASSUME NEW r, Asked(q, r)
      PROVE  Asked(t, r)
  <2>1. CASE r.pc \in {"ready", "putting", "answered"}
    BY <1>1, <1>2, <1>4, <2>1 DEF Asked
  <2>2. CASE r.pc = "awaiting"
    <3>1. \A i \in 1..n : q[i].kind = "finalize" =>
            q[i].uid = r.uid /\ \A j \in 1..n : q[j].kind = "finalize" => i = j
      BY <1>4, <2>2 DEF Asked
    <3>2. ASSUME NEW i \in 1..(n - 1), t[i].kind = "finalize"
          PROVE  t[i].uid = r.uid /\ \A j \in 1..(n - 1) : t[j].kind = "finalize" => i = j
      <4>1. q[i + 1].kind = "finalize" /\ i + 1 \in 1..n /\ t[i] = q[i + 1]
        BY <1>1, <1>2, <3>2
      <4>2. ASSUME NEW j \in 1..(n - 1), t[j].kind = "finalize"
            PROVE  i = j
        <5>1. i + 1 = j + 1
          BY <1>1, <1>2, <3>1, <4>1, <4>2
        <5> QED BY <5>1
      <4> QED BY <3>1, <4>1, <4>2
    <3> QED BY <1>1, <2>2, <3>2 DEF Asked
  <2>3. CASE r.pc \notin {"ready", "putting", "answered", "awaiting"}
    BY <2>3 DEF Asked
  <2> QED BY <2>1, <2>2, <2>3
<1>5. ASSUME NEW r \in Receiver, Asked(q, r), Head(q).kind = "finalize", r.pc # "gone"
      PROVE  /\ r.pc = "awaiting" /\ r.uid = Head(q).uid
             /\ \A s : s.pc = "answered" => Asked(t, s)
  <2>1. r.pc = "awaiting"
    <3>1. r.pc \in {"ready", "awaiting", "answered", "gone", "putting"}
      BY DEF Receiver
    <3> QED BY <1>1, <1>3, <1>5, <3>1 DEF Asked
  <2>2. r.uid = Head(q).uid /\ \A j \in 1..n : q[j].kind = "finalize" => j = 1
    BY <1>1, <1>3, <1>5, <2>1 DEF Asked
  <2>3. \A i \in 1..(n - 1) : t[i].kind # "finalize"
    BY <1>1, <1>2, <2>2
  <2> QED BY <1>1, <2>1, <2>2, <2>3 DEF Asked
<1>6. ASSUME NEW s, StopIsLast(q, s)
      PROVE  /\ StopIsLast(t, s)
             /\ Head(q).kind = "stop" => StopIsLast(t, "answered")
  <2>1. s \notin {"answered", "stopped"}
    BY <1>6 DEF StopIsLast
  <2>2. \A i \in 1..n : q[i].kind = "stop" => i = n /\ s = "awaiting"
    BY <1>6 DEF StopIsLast
  <2>3. \A i \in 1..(n - 1) : t[i].kind = "stop" => i = n - 1 /\ s = "awaiting"
    <3> SUFFICES ASSUME NEW i \in 1..(n - 1), t[i].kind = "stop" PROVE i = n - 1 /\ s = "awaiting"
      OBVIOUS
    <3>1. i + 1 = n /\ s = "awaiting"
      BY <1>1, <1>2, <2>2
    <3> QED BY <1>1, <3>1
  <2>4. StopIsLast(t, s)
    BY <1>1, <2>1, <2>3 DEF StopIsLast
  <2>5. ASSUME Head(q).kind = "stop"
        PROVE  StopIsLast(t, "answered")
    <3>1. Len(t) = 0
      BY <1>1, <1>3, <2>2, <2>5
    <3>2. t = <<>>
      BY <1>1, <3>1, EmptySeq
    <3> QED BY <3>1, <3>2 DEF StopIsLast
  <2> QED BY <2>4, <2>5
<1> QED BY <1>4, <1>5, <1>6 DEF t

\* Only the fields named change in the receive task's record.
LEMMA ReceiverFields ==
  ASSUME NEW r \in Receiver, NEW pc, NEW result, NEW f
  PROVE  /\ [r EXCEPT !.pc = pc].pc = pc /\ [r EXCEPT !.pc = pc].uid = r.uid
         /\ LET a == [r EXCEPT !.pc = pc, !.result = result, !.folder = f]
            IN a.pc = pc /\ a.uid = r.uid /\ a.result = result /\ a.folder = f
BY DEF Receiver

LEMMA CallersFlow ==
  ASSUME Inv, FlowInv,
         Receive \/ Resume \/ (\E uid \in Uids : EnqueueSample(uid)) \/ Shutdown
  PROVE  FlowInv'
<1>0. /\ queue \in Seq(Item) /\ receiver \in Receiver
      /\ Asked(queue, receiver) /\ StopIsLast(queue, shutdown) /\ ReceiverFirst(receiver, shutdown)
      /\ shutdown \in {"no", "cancelled", "putting", "awaiting", "answered", "stopped"}
  BY DEF Inv, TypeOK, FlowInv
<1>1. Asked(queue', receiver') /\ StopIsLast(queue', shutdown') /\ ReceiverFirst(receiver', shutdown') => FlowInv'
  BY DEF FlowInv, Asked, StopIsLast, ReceiverFirst
<1>2. receiver.pc # "gone" => shutdown = "no"
  BY <1>0 DEF ReceiverFirst
<1>3. ASSUME NEW item \in Item, item.kind \notin {"finalize", "stop"}, shutdown \in Waiting,
             queue' = queue \/ queue' = Append(queue, item), UNCHANGED <<receiver, shutdown>>
      PROVE  FlowInv'
  <2>1. Asked(queue', receiver) /\ StopIsLast(queue', shutdown)
    BY <1>0, <1>3, PutFlow
  <2> QED BY <1>0, <1>1, <1>3, <2>1
<1>4. ASSUME NEW kind \in DataKinds, NEW uid \in Uids, Offer(kind, uid), shutdown \in Waiting
      PROVE  FlowInv'
  <2>1. [kind |-> kind, uid |-> uid] \in Item /\ [kind |-> kind, uid |-> uid].kind \notin {"finalize", "stop"}
    BY DEF Item, DataKinds
  <2> QED BY <1>3, <1>4, <2>1 DEF Offer
<1>5. ASSUME NEW uid \in Uids, EnqueueRaw(uid) \/ EnqueueSample(uid)
      PROVE  FlowInv'
  BY <1>2, <1>4, <1>5 DEF EnqueueRaw, EnqueueSample, Waiting, DataKinds
<1>6. ASSUME NEW uid \in Uids, NEW full \in BOOLEAN, UpdateMetadata(uid, full)
      PROVE  FlowInv'
  <2>1. /\ [kind |-> "metadata", uid |-> uid, full |-> full] \in Item
        /\ [kind |-> "metadata", uid |-> uid, full |-> full].kind \notin {"finalize", "stop"}
    BY DEF Item, DataKinds
  <2> QED BY <1>3, <1>6, <2>1 DEF UpdateMetadata, Waiting
<1>7. ASSUME NEW uid \in Uids
      PROVE  LET item == [kind |-> "finalize", uid |-> uid]
             IN item \in Item /\ item.kind = "finalize" /\ item.uid = uid
  BY DEF Item, DataKinds
<1>8. ASSUME NEW uid \in Uids, receiver.pc \in {"ready", "putting"}, receiver'.pc = "awaiting", receiver'.uid = uid,
             queue' = Append(queue, [kind |-> "finalize", uid |-> uid]), shutdown' = shutdown
      PROVE  FlowInv'
  <2>1. shutdown = "no"
    BY <1>2, <1>8
  <2> DEFINE item == [kind |-> "finalize", uid |-> uid]
  <2>2. item \in Item /\ item.kind = "finalize" /\ item.uid = uid
    BY <1>7
  <2> HIDE DEF item
  <2>3. queue' = Append(queue, item)
    BY <1>8 DEF item
  <2>4. Asked(queue', receiver')
    BY <1>0, <1>8, <2>2, <2>3, PutFlow
  <2>5. StopIsLast(queue', shutdown')
    BY <1>0, <1>8, <2>1, <2>2, <2>3, PutFlow DEF Waiting
  <2> QED BY <1>1, <1>8, <2>1, <2>4, <2>5 DEF ReceiverFirst
<1>9. ASSUME NEW uid \in Uids, Finalize(uid)
      PROVE  FlowInv'
  <2>1. CASE receiver' = Asking("putting", uid) /\ queue' = queue /\ shutdown' = shutdown
    <3>1. receiver'.pc = "putting" /\ receiver.pc = "ready"
      BY <1>9, <2>1 DEF Asking, Finalize
    <3>2. Asked(queue', receiver')
      BY <1>0, <2>1, <3>1 DEF Asked
    <3> QED BY <1>0, <1>1, <1>2, <2>1, <3>1, <3>2 DEF ReceiverFirst
  <2>2. CASE /\ receiver' = Asking("awaiting", uid) /\ shutdown' = shutdown
             /\ queue' = Append(queue, [kind |-> "finalize", uid |-> uid])
    <3>1. receiver'.pc = "awaiting" /\ receiver'.uid = uid /\ receiver.pc = "ready"
      BY <1>9, <2>2 DEF Asking, Finalize
    <3> QED BY <1>8, <2>2, <3>1
  <2> QED BY <1>9, <2>1, <2>2 DEF Finalize
<1>10. ASSUME FinalizePut
       PROVE  FlowInv'
  <2>1. receiver.uid \in Uids
    BY <1>0, <1>10, ReceiverMoves DEF FinalizePut
  <2>2. receiver'.pc = "awaiting" /\ receiver'.uid = receiver.uid
    BY <1>0, <1>10, ReceiverFields DEF FinalizePut
  <2> QED BY <1>8, <1>10, <2>1, <2>2 DEF FinalizePut
<1>11. ASSUME FinalizeReturns
       PROVE  FlowInv'
  <2>1. receiver.pc = "answered" /\ receiver'.pc = "ready" /\ queue' = queue /\ shutdown' = shutdown
    BY <1>11 DEF FinalizeReturns, Ready, Asking
  <2> QED BY <1>0, <1>1, <1>2, <2>1 DEF Asked, ReceiverFirst
<1>12. ASSUME CancelReceiver
       PROVE  FlowInv'
  <2>1. /\ receiver'.pc = "gone" /\ queue' = queue /\ shutdown = "no" /\ shutdown' = "cancelled"
    BY <1>0, <1>12, ReceiverFields DEF CancelReceiver
  <2> QED BY <1>0, <1>1, <2>1 DEF Asked, StopIsLast, ReceiverFirst
<1>13. ASSUME Stop
       PROVE  FlowInv'
  <2>1. shutdown \in Waiting /\ receiver' = receiver /\ shutdown # "no" /\ receiver.pc = "gone"
    BY <1>0, <1>13 DEF Stop, Waiting, ReceiverFirst
  <2>2. CASE shutdown' = "putting" /\ queue' = queue
    <3>1. StopIsLast(queue', shutdown')
      BY <1>0, <2>1, <2>2 DEF StopIsLast, Waiting
    <3> QED BY <1>0, <1>1, <2>1, <2>2, <3>1 DEF ReceiverFirst
  <2>3. CASE shutdown' = "awaiting" /\ queue' = Append(queue, [kind |-> "stop"])
    <3>1. [kind |-> "stop"] \in Item /\ [kind |-> "stop"].kind # "finalize"
      BY DEF Item
    <3>2. Asked(queue', receiver') /\ StopIsLast(queue', shutdown')
      BY <1>0, <2>1, <2>3, <3>1, PutFlow
    <3> QED BY <1>1, <2>1, <3>2 DEF ReceiverFirst
  <2> QED BY <1>13, <2>2, <2>3 DEF Stop
<1>14. ASSUME StopReturns
       PROVE  FlowInv'
  BY <1>0, <1>1, <1>14 DEF StopReturns, StopIsLast, ReceiverFirst
<1> QED BY <1>5, <1>6, <1>9, <1>10, <1>11, <1>12, <1>13, <1>14 DEF Receive, Resume, Shutdown

\* What an answer does to the receive task.
LEMMA AnswerMoves ==
  ASSUME receiver \in Receiver, NEW result, NEW f, Answer(result, f)
  PROVE  \/ receiver.pc = "gone" /\ receiver' = receiver
         \/ /\ receiver.pc # "gone" /\ receiver'.pc = "answered" /\ receiver'.uid = receiver.uid
            /\ receiver'.result = result /\ receiver'.folder = f
<1>1. CASE receiver.pc = "gone"
  BY <1>1 DEF Answer
<1>2. CASE receiver.pc # "gone"
  <2>1. receiver' = [receiver EXCEPT !.pc = "answered", !.result = result, !.folder = f]
    BY <1>2 DEF Answer
  <2>2. LET a == [receiver EXCEPT !.pc = "answered", !.result = result, !.folder = f]
        IN a.pc = "answered" /\ a.uid = receiver.uid /\ a.result = result /\ a.folder = f
    BY ReceiverFields
  <2> QED BY <1>2, <2>1, <2>2
<1> QED BY <1>1, <1>2

LEMMA WorkerFlow ==
  ASSUME Inv, FlowInv, Worker
  PROVE  FlowInv'
<1>0. /\ queue \in Seq(Item) /\ receiver \in Receiver
      /\ Asked(queue, receiver) /\ StopIsLast(queue, shutdown) /\ ReceiverFirst(receiver, shutdown)
  BY DEF Inv, TypeOK, FlowInv
<1>1. Asked(queue', receiver') /\ StopIsLast(queue', shutdown') /\ ReceiverFirst(receiver', shutdown') => FlowInv'
  BY DEF FlowInv, Asked, StopIsLast, ReceiverFirst
<1>2. ASSUME NEW kind, Take(kind), UNCHANGED <<receiver, shutdown>>
      PROVE  FlowInv'
  <2>1. queue # <<>> /\ queue' = Tail(queue)
    BY <1>2 DEF Take, Rest
  <2>2. Asked(queue', receiver) /\ StopIsLast(queue', shutdown)
    BY <1>0, <2>1, TakeFlow
  <2> QED BY <1>0, <1>1, <1>2, <2>2
<1>3. ASSUME NEW kind \in DataKinds, RefuseData(kind) \/ StoreData(kind)
      PROVE  FlowInv'
  BY <1>2, <1>3 DEF RefuseData, StoreData
<1>4. ASSUME WorkMetadata
      PROVE  FlowInv'
  BY <1>2, <1>4 DEF WorkMetadata
<1>5. ASSUME WorkFinalize
      PROVE  FlowInv'
  <2>1. queue # <<>> /\ queue' = Tail(queue) /\ Head(queue).kind = "finalize" /\ shutdown' = shutdown
    BY <1>5 DEF WorkFinalize, Take, Rest
  <2>2. PICK result, f : Answer(result, f)
    BY <1>5 DEF WorkFinalize
  <2>3. StopIsLast(queue', shutdown')
    BY <1>0, <2>1, TakeFlow
  <2>4. CASE receiver.pc = "gone" /\ receiver' = receiver
    BY <1>0, <1>1, <2>1, <2>3, <2>4, TakeFlow
  <2>5. CASE receiver.pc # "gone" /\ receiver'.pc = "answered"
    <3>1. Asked(queue', receiver')
      BY <1>0, <2>1, <2>5, TakeFlow
    <3> QED BY <1>0, <1>1, <2>1, <2>3, <2>5, <3>1 DEF ReceiverFirst
  <2> QED BY <1>0, <2>2, <2>4, <2>5, AnswerMoves
<1>6. ASSUME WorkStop
      PROVE  FlowInv'
  <2>1. /\ queue # <<>> /\ queue' = Tail(queue) /\ Head(queue).kind = "stop"
        /\ shutdown' = "answered" /\ receiver' = receiver
    BY <1>6 DEF WorkStop, Take, Rest
  <2>2. shutdown = "awaiting"
    <3>1. Head(queue) = queue[1] /\ 1 \in 1..Len(queue)
      BY <1>0, <2>1, HeadTailProperties, EmptySeq
    <3> QED BY <1>0, <2>1, <3>1 DEF StopIsLast
  <2>3. Asked(queue', receiver') /\ StopIsLast(queue', shutdown')
    BY <1>0, <2>1, TakeFlow
  <2> QED BY <1>0, <1>1, <2>1, <2>2, <2>3 DEF ReceiverFirst
<1> QED BY <1>3, <1>4, <1>5, <1>6 DEF Worker

\* Requests, answers and the shutdown keep to the order the queue gives them.
THEOREM FlowInvariance == Spec => []FlowInv
<1>1. Init => FlowInv
  BY DEF Init, FlowInv, Asked, StopIsLast, ReceiverFirst, Ready, Asking
<1>2. ASSUME Inv, FlowInv, [Next]_vars
      PROVE  FlowInv'
  <2>1. CASE Receive \/ Resume \/ (\E uid \in Uids : EnqueueSample(uid)) \/ Shutdown
    BY <1>2, <2>1, CallersFlow
  <2>2. CASE Worker
    BY <1>2, <2>2, WorkerFlow
  <2>3. CASE Restart
    <3>1. queue' = <<>> /\ shutdown' = "no" /\ Len(queue') = 0
      BY <2>3 DEF Restart
    <3> QED BY <3>1 DEF FlowInv, Asked, StopIsLast, ReceiverFirst
  <2>4. CASE UNCHANGED vars
    BY <1>2, <2>4 DEF FlowInv, Asked, StopIsLast, ReceiverFirst, vars
  <2> QED BY <1>2, <2>1, <2>2, <2>3, <2>4 DEF Next, Step
<1> QED BY <1>1, <1>2, Invariance, PTL DEF Spec

-----------------------------------------------------------------------------
\* A finished folder stays a finished folder of its session, with its classification: it is
\* only ever removed, which is what the archive's step leaves it.
LEMMA FinishedStays ==
  ASSUME Inv, Inv', [Next]_vars, NEW f \in FolderIds, folder[f].state \in {"final", "deleted"}
  PROVE  /\ folder'[f].state \in {"final", "deleted"} /\ folder'[f].uid = folder[f].uid
         /\ folder'[f].classified = folder[f].classified
<1>1. CASE UNCHANGED Archive!archive
  BY <1>1 DEF Archive!archive
<1>2. CASE Archive!Next
  <2>1. Archive!Created(f) \/ Archive!Grown(f) \/ Archive!Sealed(f) \/ Archive!Removed(f) \/ Archive!Kept(f)
    BY <1>2 DEF Archive!Next
  <2>2. folder[f] \in Folder
    BY DEF Inv, TypeOK
  <2>3. f # 0
    BY DEF FolderIds
  <2>4. f # Live
    BY <2>3 DEF Live
  <2>5. ~Archive!Created(f)
    <3>1. Archive!Absent.state = "absent"
      BY DEF Archive!Absent
    <3> QED BY <3>1 DEF Archive!Created
  <2>6. Archive!Removed(f) \/ Archive!Kept(f)
    BY <2>1, <2>4, <2>5 DEF Archive!Grown, Archive!Sealed
  <2>7. CASE Archive!Removed(f)
    <3>1. folder'[f] = [folder[f] EXCEPT !.state = "deleted"]
      BY <2>7 DEF Archive!Removed
    <3> QED BY <2>2, <3>1, RemovedRecord
  <2> QED BY <2>6, <2>7 DEF Archive!Kept
<1> QED BY <1>1, <1>2, ArchiveStep

\* A path is answered only for a folder just sealed with the classification.
LEMMA PathAnswered ==
  ASSUME Inv, FlowInv, WorkFinalize, receiver.pc # "gone", receiver'.result = "path"
  PROVE  LET f == receiver'.folder
         IN /\ f \in FolderIds /\ folder'[f].uid = receiver'.uid
            /\ folder'[f].state = "final" /\ folder'[f].classified
<1>0. /\ queue \in Seq(Item) /\ receiver \in Receiver /\ Asked(queue, receiver)
      /\ queue # <<>> /\ Head(queue).kind = "finalize"
  BY DEF Inv, TypeOK, FlowInv, WorkFinalize, Take
<1>1. receiver.uid = Head(queue).uid
  BY <1>0, TakeFlow
<1>2. ASSUME NEW result, NEW f, Answer(result, f)
      PROVE  receiver'.result = result /\ receiver'.folder = f /\ receiver'.uid = Head(queue).uid
  BY <1>0, <1>1, <1>2, AnswerMoves
<1>3. IsCurrent(Head(queue).uid)
  <2>1. ~IsCurrent(Head(queue).uid) => Answer("none", 0)
    BY DEF WorkFinalize
  <2>2. ~Answer("none", 0)
    BY <1>2
  <2> QED BY <2>1, <2>2
<1>4. PICK how \in FinalizeOutcomes :
      \E gone \in SUBSET (IF how = "ok" THEN Expired ELSE {}) :
        /\ Closing(TRUE, how, gone)
        /\ IF how = "ok" THEN Answer("path", open.folder) ELSE Answer("error", 0)
  BY <1>3 DEF WorkFinalize
<1>5. how = "ok"
  BY <1>2, <1>4
<1>6. PICK gone \in SUBSET Expired : Closing(TRUE, how, gone) /\ Answer("path", open.folder)
  BY <1>4, <1>5
<1>7. /\ open \in Open /\ open # None /\ open.folder \in FolderIds /\ open.uid = Head(queue).uid
      /\ folder \in [FolderIds -> Folder]
  BY <1>3 DEF IsCurrent, Inv, TypeOK, Open
<1>8. ~open.closed
  BY <1>5, <1>7 DEF FinalizeOutcomes
<1>9. folder[open.folder].state = "recording" /\ folder[open.folder].uid = open.uid
  BY <1>7, <1>8 DEF Inv, DiskInv, Sound, OwnFolder
<1>10. folder' = FolderAfter(TRUE, how, gone)
  BY <1>6 DEF Closing, Finalized
<1>11. folder'[open.folder] = [folder[open.folder] EXCEPT !.state = "final", !.classified = TRUE]
  BY <1>5, <1>7, <1>9, <1>10 DEF FolderAfter, Moved
<1>12. /\ folder'[open.folder].state = "final" /\ folder'[open.folder].classified = TRUE
       /\ folder'[open.folder].uid = open.uid
  <2> DEFINE r == folder[open.folder]
  <2>1. r \in Folder /\ r.state = "recording" /\ r.uid = open.uid
    BY <1>7, <1>9
  <2>2. folder'[open.folder] = [r EXCEPT !.state = "final", !.classified = TRUE]
    BY <1>11
  <2> HIDE DEF r
  <2>3. LET s == [r EXCEPT !.state = "final", !.classified = TRUE]
        IN s.state = "final" /\ s.classified = TRUE /\ s.uid = r.uid
    BY <2>1, SealedRecord
  <2> QED BY <2>1, <2>2, <2>3
<1>13. receiver'.folder = open.folder /\ receiver'.uid = open.uid
  BY <1>2, <1>6, <1>7
<1> QED BY <1>7, <1>12, <1>13

\* finalize() answers with a path only for a finished folder of the session it was asked
\* for, with that session's classification, and the folder stays so until the caller looks.
THEOREM AnswersAreOwnSessions == Spec => []AnswerIsOwnSession
<1>1. Init => AnswerIsOwnSession
  BY DEF Init, AnswerIsOwnSession, Ready, Asking
<1>2. ASSUME Inv, Inv', FlowInv, AnswerIsOwnSession, [Next]_vars
      PROVE  AnswerIsOwnSession'
  <2>1. CASE receiver' = receiver
    <3> SUFFICES ASSUME receiver.pc = "answered", receiver.result = "path"
                 PROVE  LET f == receiver.folder
                        IN /\ f \in FolderIds /\ folder'[f].uid = receiver.uid
                           /\ folder'[f].state \in {"final", "deleted"} /\ folder'[f].classified
      BY <2>1 DEF AnswerIsOwnSession
    <3> DEFINE f == receiver.folder
    <3>1. /\ f \in FolderIds /\ folder[f].uid = receiver.uid
          /\ folder[f].state \in {"final", "deleted"} /\ folder[f].classified
      BY <1>2 DEF AnswerIsOwnSession
    <3> HIDE DEF f
    <3>2. /\ folder'[f].state \in {"final", "deleted"} /\ folder'[f].uid = folder[f].uid
          /\ folder'[f].classified = folder[f].classified
      BY <1>2, <3>1, FinishedStays
    <3> QED BY <3>1, <3>2 DEF f
  <2>2. CASE receiver'.pc # "answered"
    BY <2>2 DEF AnswerIsOwnSession
  <2>3. receiver \in Receiver
    BY <1>2 DEF Inv, TypeOK
  <2>4. CASE Receive \/ Resume \/ (\E uid \in Uids : EnqueueSample(uid)) \/ Shutdown
    <3>1. receiver' = receiver \/ receiver'.pc \in {"putting", "awaiting", "ready", "gone"}
      <4>0. \A uid : Asking("putting", uid).pc = "putting" /\ Asking("awaiting", uid).pc = "awaiting"
                      /\ Ready.pc = "ready"
        BY DEF Ready, Asking
      <4>1. ASSUME NEW kind, NEW uid, Offer(kind, uid)
            PROVE  receiver' = receiver
        BY <4>1 DEF Offer
      <4>2. ASSUME NEW uid, Finalize(uid)
            PROVE  receiver'.pc \in {"putting", "awaiting"}
        BY <4>0, <4>2 DEF Finalize
      <4>3. ASSUME NEW uid, NEW full, UpdateMetadata(uid, full)
            PROVE  receiver' = receiver
        BY <4>3 DEF UpdateMetadata
      <4>4. ASSUME Resume
            PROVE  receiver'.pc \in {"awaiting", "ready"}
        <5>1. CASE FinalizePut
          BY <2>3, <5>1, ReceiverFields DEF FinalizePut
        <5>2. CASE FinalizeReturns
          BY <4>0, <5>2 DEF FinalizeReturns
        <5> QED BY <4>4, <5>1, <5>2 DEF Resume
      <4>5. ASSUME Shutdown
            PROVE  receiver' = receiver \/ receiver'.pc = "gone"
        <5>1. CASE CancelReceiver
          BY <2>3, <5>1, ReceiverFields DEF CancelReceiver
        <5>2. CASE Stop \/ StopReturns
          BY <5>2 DEF Stop, StopReturns
        <5> QED BY <4>5, <5>1, <5>2 DEF Shutdown
      <4> QED BY <2>4, <4>1, <4>2, <4>3, <4>4, <4>5 DEF Receive, EnqueueRaw, EnqueueSample
    <3> QED BY <2>1, <2>2, <3>1
  <2>5. CASE Worker
    <3>1. CASE WorkFinalize /\ receiver.pc # "gone"
      <4>1. receiver'.result = "path" =>
              LET f == receiver'.folder
              IN /\ f \in FolderIds /\ folder'[f].uid = receiver'.uid
                 /\ folder'[f].state = "final" /\ folder'[f].classified
        BY <1>2, <3>1, PathAnswered
      <4> QED BY <4>1 DEF AnswerIsOwnSession
    <3>2. CASE WorkFinalize /\ receiver.pc = "gone"
      BY <2>1, <3>2 DEF WorkFinalize, Answer
    <3>3. CASE ~WorkFinalize
      BY <2>1, <2>5, <3>3 DEF Worker, RefuseData, StoreData, WorkMetadata, WorkStop
    <3> QED BY <3>1, <3>2, <3>3
  <2>6. CASE Restart
    BY <2>2, <2>6 DEF Restart, Ready, Asking
  <2>7. CASE UNCHANGED vars
    BY <2>1, <2>7 DEF vars
  <2> QED BY <1>2, <2>4, <2>5, <2>6, <2>7 DEF Next, Step
<1> QED BY <1>1, <1>2, Invariance, FlowInvariance, PTL DEF Spec

-----------------------------------------------------------------------------
\* While nothing fails the open session's files are open, and the stop item leaves none.
NothingFails(op, s) ==
  Faults = {} => /\ op # None => op.closed = FALSE
                 /\ s \in {"answered", "stopped"} => op = None

LEMMA NoFaults ==
  ASSUME Faults = {}, NothingFails(open, shutdown)
  PROVE  \A how \in FinalizeOutcomes : how = "ok" /\ OpenAfter(how) = None
BY DEF NothingFails, FinalizeOutcomes, OpenAfter, Marked

\* The session open after _ensure_session: the one that was, none, or a new one.
LEMMA EnsuredOpen ==
  ASSUME NEW uid, NEW fin, NEW gone, NEW make
  PROVE  LET s == Ensured(uid, fin, gone, make)
         IN s.open \in {open, OpenAfter(fin), Opened(uid)}
<1> DEFINE s == Ensured(uid, fin, gone, make)
<1>1. ASSUME NEW fo, NEW rows, NEW op
      PROVE  Created(uid, [folder |-> fo, row |-> rows, open |-> op], make).open \in {op, Opened(uid)}
  BY DEF Created, Ends
<1>2. CASE IsCurrent(uid)
  BY <1>2 DEF Ensured, Ends, Now
<1>3. CASE ~IsCurrent(uid) /\ open = None
  <2>1. s = Created(uid, [folder |-> folder, row |-> row, open |-> open], make)
    BY <1>3 DEF Ensured, Now
  <2> QED BY <1>1, <2>1
<1>4. CASE ~IsCurrent(uid) /\ open # None /\ fin = "ok"
  <2>1. s = Created(uid, [folder |-> FolderAfter(FALSE, fin, gone), row |-> RowAfter(fin), open |-> OpenAfter(fin)], make)
    BY <1>4 DEF Ensured, Finalized
  <2> QED BY <1>1, <2>1
<1>5. CASE ~IsCurrent(uid) /\ open # None /\ fin # "ok"
  BY <1>5 DEF Ensured, Ends, Finalized
<1> QED BY <1>2, <1>3, <1>4, <1>5

LEMMA WorkerNothingFails ==
  ASSUME Inv, FlowInv, NothingFails(open, shutdown), Worker
  PROVE  NothingFails(open', shutdown')
<1> SUFFICES ASSUME Faults = {} PROVE NothingFails(open', shutdown')
  BY DEF NothingFails
<1>1. queue # <<>>
  BY DEF Worker, RefuseData, StoreData, WorkMetadata, WorkFinalize, WorkStop, Take
<1>2. shutdown \notin {"answered", "stopped"}
  BY <1>1 DEF FlowInv, StopIsLast
<1>3. \A how \in FinalizeOutcomes : OpenAfter(how) = None
  BY NoFaults
<1>4. open # None => open.closed = FALSE
  BY DEF NothingFails
<1>5. ASSUME NEW kind \in DataKinds, RefuseData(kind)
      PROVE  NothingFails(open', shutdown')
  BY <1>5 DEF RefuseData, memory
<1>6. ASSUME NEW kind \in DataKinds, StoreData(kind)
      PROVE  NothingFails(open', shutdown')
  <2>1. PICK fin \in FinalizeOutcomes, make \in CreateOutcomes :
        \E gone \in SUBSET (IF fin = "ok" THEN Expired ELSE {}) :
          StoreInto(Ensured(Head(queue).uid, fin, gone, make), kind)
    BY <1>6 DEF StoreData
  <2>2. PICK gone \in SUBSET (IF fin = "ok" THEN Expired ELSE {}) :
          StoreInto(Ensured(Head(queue).uid, fin, gone, make), kind)
    BY <2>1
  <2>3. open' = Ensured(Head(queue).uid, fin, gone, make).open
    BY <2>2 DEF StoreInto
  <2>4. open' \in {open, None, Opened(Head(queue).uid)}
    BY <1>3, <2>3, EnsuredOpen
  <2>5. Opened(Head(queue).uid).closed = FALSE
    BY DEF Opened
  <2>6. shutdown' = shutdown
    BY <1>6 DEF StoreData
  <2> QED BY <1>2, <1>4, <2>4, <2>5, <2>6 DEF NothingFails
<1>7. ASSUME WorkMetadata
      PROVE  NothingFails(open', shutdown')
  <2>1. shutdown' = shutdown
    BY <1>7 DEF WorkMetadata
  <2>2. CASE open' = open
    BY <1>2, <1>4, <2>1, <2>2 DEF NothingFails
  <2>3. CASE open # None /\ open' = [open EXCEPT !.full = @ \/ Head(queue).full]
    <3>1. open \in Open
      BY <2>3 DEF Inv, TypeOK
    <3>2. open'.closed = open.closed
      BY <2>3, <3>1 DEF Open
    <3> QED BY <1>2, <1>4, <2>1, <2>3, <3>2 DEF NothingFails
  <2> QED BY <1>7, <2>2, <2>3 DEF WorkMetadata, IsCurrent
<1>8. ASSUME WorkFinalize
      PROVE  NothingFails(open', shutdown')
  <2>1. shutdown' = shutdown
    BY <1>8 DEF WorkFinalize
  <2>2. open' = open \/ open' = None
    BY <1>3, <1>8 DEF WorkFinalize, Closing, Finalized
  <2> QED BY <1>2, <1>4, <2>1, <2>2 DEF NothingFails
<1>9. ASSUME WorkStop
      PROVE  NothingFails(open', shutdown')
  <2>1. open' = None
    BY <1>3, <1>9 DEF WorkStop, Closing, Finalized
  <2> QED BY <2>1 DEF NothingFails
<1> QED BY <1>5, <1>6, <1>7, <1>8, <1>9 DEF Worker

\* After an orderly stop nothing is left half done: the queue was drained up to the stop
\* item, which is the last, and the open session was finalized.
THEOREM OrderlyStopIsClean == Spec => []StoppedIsClean
<1>1. Init => NothingFails(open, shutdown)
  BY DEF Init, NothingFails
<1>2. ASSUME Inv, FlowInv, NothingFails(open, shutdown), [Next]_vars
      PROVE  NothingFails(open, shutdown)'
  <2>0. NothingFails(open', shutdown') => NothingFails(open, shutdown)'
    BY DEF NothingFails
  <2>1. CASE Receive \/ Resume \/ (\E uid \in Uids : EnqueueSample(uid)) \/ Shutdown
    <3>1. open' = open
      BY <2>1 DEF Receive, EnqueueRaw, EnqueueSample, Offer, UpdateMetadata, Finalize, Resume,
                  FinalizePut, FinalizeReturns, Shutdown, CancelReceiver, Stop, StopReturns, memory
    <3>2. shutdown' \in {"answered", "stopped"} => shutdown \in {"answered", "stopped"}
      BY <2>1 DEF Receive, EnqueueRaw, EnqueueSample, Offer, UpdateMetadata, Finalize, Resume,
                  FinalizePut, FinalizeReturns, Shutdown, CancelReceiver, Stop, StopReturns
    <3> QED BY <1>2, <2>0, <3>1, <3>2 DEF NothingFails
  <2>2. CASE Worker
    BY <1>2, <2>0, <2>2, WorkerNothingFails
  <2>3. CASE Restart
    BY <2>0, <2>3 DEF Restart, NothingFails
  <2>4. CASE UNCHANGED vars
    BY <1>2, <2>0, <2>4 DEF vars
  <2> QED BY <1>2, <2>1, <2>2, <2>3, <2>4 DEF Next, Step
<1>3. Inv /\ FlowInv /\ NothingFails(open, shutdown) => StoppedIsClean
  BY DEF Inv, DiskInv, Sound, Accounted, FlowInv, StopIsLast, NothingFails, StoppedIsClean
<1> QED BY <1>1, <1>2, <1>3, Invariance, FlowInvariance, PTL DEF Spec
=============================================================================
