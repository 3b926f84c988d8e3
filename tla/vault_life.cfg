SPECIFICATION Spec
CONSTANTS
  p = p
  q = q
  Procs = {p, q}
  Pins = {pin1, pin2}
  AdminKeys = {exported, key1, key2, key3}
  Exported = exported
  Dev = dev
  Names = {name}
  ColumnKey = columnKey
  Keys = {k0, k1, k2, k3, k4, k5}
  FirstKey = k0
  None = None
  MaxOps = 3
  MaxFaults = 1
SYMMETRY MCSymmetry
CHECK_DEADLOCK FALSE
INVARIANTS
  SlotsAgree
  OwnerCanOpen
  AloneIsDurable
