\* The interval and timeout of check_for_deployment_status (5 s, 300 s),
\* each oc invocation blocking up to one second.
CONSTANTS
  Interval = 5
  Timeout = 300
  Status = "Running"
  Values <- MC_Values
  ErrorOutput <- MC_ErrorOutput
  FailCode = 1
  MaxRunSecs = 1
  Absent = Absent
  None = None
SPECIFICATION Spec
INVARIANT ElapsedWithinTimeout
