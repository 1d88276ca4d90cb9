\* get_resource_info_by_jq with wait=True.
CONSTANTS
  Wait = TRUE
  Via = "jq"
  Values <- MC_Values
  ErrorOutput <- MC_ErrorOutput
  FailCode = 1
  Absent = Absent
  None = None
SPECIFICATION Spec
INVARIANT ReturnsFieldValue
