\* Days 1 to 4 with a Saturday and a listed closure; one user with two devices, of which one is
\* allowed, and two fan-outs over two UTC days; two edits of a portfolio, two readers of one window.
SPECIFICATION MCSpec
CONSTANTS
  LastDay = 4
  Window = 2
  Weekends = {3}
  Listed = {2}
  MayFail = TRUE
  MayCrash = TRUE
  MaxUploads = 1
  u1 = u1
  d1 = d1
  d2 = d2
  Users = {u1}
  Devices = {d1, d2}
  Allowed = {d1}
  Fans = {"scrape", "upload"}
  LastUTCDay = 2
  MaxEdits = 1
  MaxFaults = 1
  Windows = {"all"}
  Editors = {"e"}
  Readers = {"r1", "r2"}
  MaxVersion = 2
  CallsMayFail = TRUE
INVARIANT FeedTypeOK
INVARIANT ContentMeansFresh
INVARIANT OneDigestADay
INVARIANT StaleHistoryIsExplained
PROPERTY PublishedIsIngested
PROPERTY DigestArrives
PROPERTY ReaderIsAnswered
\* The bounds end the behaviours of two parts.
CHECK_DEADLOCK FALSE
