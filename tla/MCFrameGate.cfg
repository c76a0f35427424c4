\* Two sessions, frame 0 and three more, three packet types.
SPECIFICATION GateSpec
CONSTANTS
  Uids = {u1, u2}
  NoUid = NoUid
  Frames = {0, 1, 2, 3}
  Types = {t1, t2, t3}
SYMMETRY Symmetry
INVARIANTS
  GateTypeOK
  DeliveredInOrder
  DropsAreJustified
