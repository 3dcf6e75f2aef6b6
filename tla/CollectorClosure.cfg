\* A Wednesday that is listed as a closure by mistake; nothing fails and nothing stops.
SPECIFICATION Spec
CONSTANTS
  LastDay = 3
  Window = 2
  Weekends = {}
  Listed = {2}
  MayFail = FALSE
  MayCrash = FALSE
  MaxUploads = 0
PROPERTY ListedDayIsNoException
\* The last day ends every behaviour.
CHECK_DEADLOCK FALSE
