INIT CronInit
NEXT CronNext
CONSTANTS
  TimeLists <- MCTimeLists
  Readings <- MCReadings
  JobActions = {"a", "b"}
  MaxJobs = 2
PROPERTIES
  DueJobsRun
CHECK_DEADLOCK FALSE
