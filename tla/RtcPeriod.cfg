\* As Rtc.cfg: the length of a period.
SPECIFICATION Spec
CONSTANTS
  NUM_TERMS = 2
  max_freq = 4
INVARIANT
  ReadWithinPeriod
