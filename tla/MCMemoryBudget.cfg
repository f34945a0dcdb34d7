SPECIFICATION Spec
CONSTANTS
  Regions = {app, swap}
  SwapRegion = swap
  SWAP_SLOT_MAX = 2
  Unit = 2
  WordSize = 16
  Sizes = {0, 1, 3, 15}
  Limits = {0, 3}
  Charges = {c1}
  MaxUsed = 5
INVARIANTS
  ChargesAccounted
PROPERTIES
  LimitRespected
