SPECIFICATION Spec
CONSTANTS
  MaxSeeds = 2
  MaxRuns = 1
  MaxFaults = 1
CONSTRAINT LastRunIsNotOver
INVARIANTS
  TypeOK
  RedisIsLeftAsFound
  ValidReportsAreOfTheirMode
  ReportsMeasureLiveTickets
