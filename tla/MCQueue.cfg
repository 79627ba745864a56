SPECIFICATION Spec
CONSTANTS
  Producers = {p1}
  Consumers = {c1}
  Capacity = 4
  Items = {x1, x2, x3}
  Zero = zero
  Modes = {"drop_old", "drop_new"}
  Locked = {"drop_old"}
SYMMETRY ItemSymmetry
INVARIANTS
  TypeOK
  CopiesApart
PROPERTIES
  FifoSpec
