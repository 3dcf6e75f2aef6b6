\* One request at a time, one upload next to the scrape, with failures and restarts.
SPECIFICATION MCSpec
CONSTANTS
  Keys = {"snapshot", "summary", "briefing", "insight"}
  Requests = {r1}
  Uploads = {u1}
  CallsMayFail = TRUE
  MaxVersion = 3
INVARIANT TypeOK
INVARIANT StaleIsExplained
PROPERTY EventuallyFresh
