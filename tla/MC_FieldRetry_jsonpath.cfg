\* get_resource_info_by_jsonpath with wait=True.
CONSTANTS
  Wait = TRUE
  Via = "jsonpath"
  Values <- MC_Values
  ErrorOutput <- MC_ErrorOutput
  FailCode = 1
  Absent = Absent
  None = None
SPECIFICATION Spec
INVARIANT TypeOK ReturnsFieldValue
PROPERTY ImplementsBoundedPoll
