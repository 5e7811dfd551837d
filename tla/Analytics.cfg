SPECIFICATION HourlySpec
CONSTANTS
  Sites = {a}
  Visitors = {v}
  Requests = {r1, r2}
  NoList = NoList
  DayLen = 2
  VisitIdle = 1
  Retention = 3
  History = 3
  PurgeLimit = 1
  Week = 2
  MaxSites = 1
  MaxTick = 8
  MaxViews = 2
  MaxCalls = 2
INVARIANTS CacheFresh VisitInOneDay  
