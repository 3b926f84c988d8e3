\* Three keys on one channel; five look-ups within three ticks.
CONSTANTS
  ch = ch
  None = None
  Keys = {k1, k2, k3}
  Channels = {ch}
  Conns = {c1}
  SeenCap = 2
  Window = 2
  Burst <- MCBurst
  MaxTime = 3
  MaxLooks = 5
SPECIFICATION GatewaySpec
CHECK_DEADLOCK FALSE
INVARIANTS ReplayRefused RateBound
