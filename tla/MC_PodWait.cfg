\* wait_for_pod with its defaults (interval 5 s, timeout 60 s).
CONSTANTS
  Interval = 5
  Timeout = 60
  PodNames <- MC_PodNames
  ApiOrder <- MC_ApiOrder
  Matching <- MC_Matching
  ErrorOutput <- MC_ErrorOutput
  FailCode = 1
  Absent = Absent
  None = None
SPECIFICATION Spec
INVARIANT TypeOK
PROPERTY ImplementsBoundedPoll
