\* check_for_deployment_status: interval 5 s, timeout 300 s, status "True".
CONSTANTS
  Interval = 5
  Timeout = 300
  Status = "True"
  Values <- MC_Values
  ErrorOutput <- MC_ErrorOutput
  FailCode = 1
  MaxRunSecs = 0
  Absent = Absent
  None = None
SPECIFICATION DSpec
INVARIANT StatusPollingReturns
