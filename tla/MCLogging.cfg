\* Messages of length 1 or 2; a file size of 0 or above 4 means 3.
\* CHECK_DEADLOCK: there are no more messages in the end, and after a race
\* each descriptor may be lost to a log file that nothing closes any more.
SPECIFICATION Spec
CONSTANTS
  Thread = {t1, t2}
  Msg = {1, 2, 3}
  Fd = {d1, d2}
  NULL = NULL
  Length <- MCLength
  AskedSize = {0, 2, 5}
  DefaultSize = 3
  MaxSize = 4
INVARIANTS TypeOK OneLogFile NoSilentLoss FilesBounded
PROPERTIES LogSpec MutexReleased
CHECK_DEADLOCK FALSE
