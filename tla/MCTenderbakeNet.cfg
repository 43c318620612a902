CONSTANTS
  b1 = b1
  b2 = b2
  b3 = b3
  f = f
  p1 = p1
  p2 = p2
  Bakers <- MCBakers
  Faulty <- MCFaulty
  Slots <- MCSlots
  Owner <- MCOwner
  Threshold = 3
  Payloads <- MCPayloads
  Rounds = {0, 1, 2}
  Offers <- MCOffers
SYMMETRY Symmetry
SPECIFICATION Spec
CHECK_DEADLOCK FALSE
INVARIANTS Agreement QuorumIsFinal
PROPERTY ImplementsTenderbake
