CONSTANTS
  m1 = m1
  d1 = d1
  BootBar = 1
  Intervals <- MCTwo
  Cap <- MCCap
  SweepCap = 4
  Outage <- MCOutage
  Boots <- MixedBoot
  MaxCandles = 2
  MaxRequests = 1
  PerRequest = 2
  ColdStart = 2
  LastBar <- MCLastBar
  MaxFaults = 1
SPECIFICATION FairSpec
CHECK_DEADLOCK FALSE
INVARIANTS
  FormingBarNeverStored
  MarkerIsNewestEmitted
  WithinCap
  RequestsWithinLimits
PROPERTIES
  NewestAreKept
  EventuallyComplete
