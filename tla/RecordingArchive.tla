-------------------------- MODULE RecordingArchive --------------------------
(***************************************************************************)
(* What the session recorder promises of the export directory, whatever     *)
(* fails and whenever the process ends: a folder is created for one         *)
(* session, grows by items of that session only while it is the one live    *)
(* recording, is sealed at most once and never changes again, and is        *)
(* removed only after it was sealed.                                        *)
(***************************************************************************)
EXTENDS Naturals

CONSTANTS Uids, None, FolderIds, NoFolder

VARIABLES store, live

archive == <<store, live>>

Absent == [state |-> "absent", uid |-> None, raw |-> 0, holds |-> {}, classified |-> FALSE]

Init == store = [f \in FolderIds |-> Absent] /\ live = NoFolder

\* One more item of the folder's own session, or none.
Grows(old, new) ==
  /\ new.state = "recording" /\ new.uid = old.uid /\ new.classified = old.classified
  /\ new.raw \in {old.raw, old.raw + 1}
  /\ new.holds \in {old.holds, old.holds \cup {new.uid}}

Created(f) == /\ store[f] = Absent
              /\ \E u \in Uids : Grows([Absent EXCEPT !.uid = u], store'[f])
Grown(f)   == /\ f = live /\ f = live'
              /\ Grows(store[f], store'[f])
Sealed(f)  == /\ f = live
              /\ \E c \in BOOLEAN : store'[f] = [store[f] EXCEPT !.state = "final", !.classified = c]
Removed(f) == /\ store[f].state = "final"
              /\ store'[f] = [store[f] EXCEPT !.state = "deleted"]
Kept(f)    == store'[f] = store[f]

\* One step of the recorder may seal one folder, remove expired ones and create the next.
Next ==
  /\ DOMAIN store' = FolderIds
  /\ \A f \in FolderIds : Created(f) \/ Grown(f) \/ Sealed(f) \/ Removed(f) \/ Kept(f)
  /\ \A f, g \in FolderIds : ~Kept(f) /\ Created(f) /\ ~Kept(g) /\ Created(g) => f = g
  /\ live' \in {live, NoFolder} \cup {f \in FolderIds : Created(f)}
  /\ live' # NoFolder => store'[live'].state = "recording"

Spec == Init /\ [][Next]_archive
=============================================================================
