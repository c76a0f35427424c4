------------------------------ MODULE FrameGate ------------------------------
(***************************************************************************)
(* SessionFrameGate of lib/telemetry_manager/frame_gate.py, enabled, in     *)
(* front of the handlers of AsyncF1TelemetryManager.  UDP may lose, repeat  *)
(* and reorder datagrams, and two sessions may overlap on the wire: any     *)
(* packet may arrive at any time.                                           *)
(*                                                                          *)
(* The gate keeps three scalars in place of the packets it has let through; *)
(* log is that history, since the last packet that reset the gate.          *)
(***************************************************************************)
EXTENDS Naturals, Sequences

CONSTANTS
  Uids,      \* session UIDs
  NoUid,     \* None
  Frames,    \* overallFrameIdentifier values, 0 among them
  Types      \* packet types

ASSUME UidsAssumption   == NoUid \notin Uids
ASSUME FramesAssumption == Frames \subseteq Nat

VARIABLES
  gateUid,    \* self._last_session_uid
  lastFrame,  \* self._last_frame; None only while gateUid is, when nothing reads it
  seen,       \* self._seen_packet_types
  log         \* history: frame and type of what was accepted since the last reset

gateVars == <<gateUid, lastFrame, seen, log>>

Packet == [uid : Uids, frame : Frames, type : Types]
Entry  == [frame : Frames \ {0}, type : Types]

GateTypeOK ==
  /\ gateUid \in Uids \cup {NoUid}
  /\ lastFrame \in Nat
  /\ seen \subseteq Types
  /\ log \in Seq(Entry)

GateInit == gateUid = NoUid /\ lastFrame = 0 /\ seen = {} /\ log = <<>>

Added(p) == [frame |-> p.frame, type |-> p.type]

\* Mutant: frame 0 is a frame like the others.
Resets_NotZero(p) == gateUid = NoUid \/ p.uid # gateUid

\* The first packet, a packet of another session and a packet of frame 0 reset the gate.
Resets(p) == gateUid = NoUid \/ p.uid # gateUid \/ p.frame = 0

\* Mutant: a late packet of an older frame is let through.
Passes_Backward(p) == Resets(p) \/ p.frame # lastFrame \/ p.type \notin seen

\* Mutant: of every frame only the first packet.
Passes_OnePerFrame(p) == Resets(p) \/ p.frame > lastFrame

\* What should_accept answers.
Passes(p) == Resets(p) \/ p.frame > lastFrame \/ (p.frame = lastFrame /\ p.type \notin seen)

AcceptReset(p) ==
  /\ Resets(p)
  /\ gateUid' = p.uid
  /\ lastFrame' = p.frame
  /\ seen' = IF p.frame = 0 THEN {} ELSE {p.type}
  /\ log' = IF p.frame = 0 THEN <<>> ELSE <<Added(p)>>

Accept(p) ==
  /\ ~Resets(p) /\ Passes(p)
  /\ lastFrame' = p.frame
  /\ seen' = IF p.frame = lastFrame THEN seen \cup {p.type} ELSE {p.type}
  /\ log' = Append(log, Added(p))
  /\ UNCHANGED gateUid

Drop(p) == ~Passes(p) /\ UNCHANGED gateVars

GateNext == \E p \in Packet : AcceptReset(p) \/ Accept(p) \/ Drop(p)

GateSpec == GateInit /\ [][GateNext]_gateVars
-----------------------------------------------------------------------------
(* Properties.                                                              *)

\* Between two resets the handlers see frames in order and no packet of a frame and
\* type twice, whatever the network does.
DeliveredInOrder ==
  \A i, j \in 1..Len(log) : i < j => /\ log[i].frame <= log[j].frame
                                     /\ log[i] # log[j]

\* The gate's scalars lose nothing: a packet is dropped only when what was let through
\* since the reset makes it late or a duplicate.
DropsAreJustified ==
  \A p \in Packet : ~Passes(p) =>
    \E i \in 1..Len(log) : log[i].frame > p.frame \/ log[i] = Added(p)
=============================================================================
