SPECIFICATION Spec
CONSTANTS
  top = top
  a = a
  a1 = a1
  a2 = a2
  a3 = a3
  a31 = a31
  b = b
  b1 = b1
  null = null
  States <- TestStates
  Top = top
  NoState = null
  Parent <- TestParent
  Targets <- UserStates
  MaxDepth = 16
  Assertions = TRUE
INVARIANTS
  NeverAsserts
