\* One repeated frame and another, a cache of one entry, a burst of one.
CONSTANTS
  r1 = r1  again = again  r2 = r2
  k1 = k1  k2 = k2
  c1 = c1  c2 = c2
  ch1 = ch1  ch2 = ch2
  p = p
  None = None
  Keys = {k1, k2}
  Channels = {ch1, ch2}
  Conns = {c1, c2}
  SeenCap = 1
  Window = 1
  Burst <- MCBurst
  MaxTime = 0
  MaxLooks = 3
  Requests <- MCRequests
  KeyOf <- MCKeyOf
  ChannelOf <- MCChannelOf
  PageOf <- MCPageOf
  ConnOf <- MCConnOf
  OutCap = 1
SPECIFICATION Spec
CHECK_DEADLOCK FALSE
INVARIANTS QuestionsMeetAnswers
PROPERTIES TurnsEnd
