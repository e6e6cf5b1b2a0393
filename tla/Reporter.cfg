CONSTANTS
  FrameBytes = 3
  MaxId = 3
  MaxFlips = 2
  MaxFrames = 1
SPECIFICATION FairSpec
INVARIANTS TypeOK IdInRange OnlyReportEndLost ReportUnbroken ReportMatchesLed
PROPERTIES LedSettles
