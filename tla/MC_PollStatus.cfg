\* check_pod_status with the defaults of run_wait_for_status (20 s, 180 s).
CONSTANTS
  Interval = 20
  Timeout = 180
  Status = "Running"
  Values <- MC_Values
  ErrorOutput <- MC_ErrorOutput
  FailCode = 1
  MaxRunSecs = 1
  Absent = Absent
  None = None
SPECIFICATION Spec
INVARIANT TypeOK
PROPERTY ImplementsBoundedPoll
