\* The coordinator: cancels, panics, timeouts and overlapping awaits.
SPECIFICATION Spec
CONSTANTS
  a = a
  b = b
  search = search
  Agents <- MCAgents
  Tools = {search}
  Allowed <- MCAllowed
  MaxSteps = 2
  Cap = 1
  Awaiters = {w1, w2}
INVARIANTS
  AwaitComplete
  CollectedHaveEnded
  OneToolAfterCancel
  RunningIsHeld
PROPERTY AwaitEnds
CHECK_DEADLOCK FALSE
