SPECIFICATION Spec
CONSTANTS
  Inside = {i1, i2}
  Outside = {o1, o2}
INVARIANTS ChainHolds
