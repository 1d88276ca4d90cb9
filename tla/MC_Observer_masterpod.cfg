\* getmasterpod while the jenkins replicas are scaled and rolled out.
CONSTANTS
  Names <- MC_Names
  Ops = {"getmasterpod", "scaleReplicas", "set_env_for_deployment_config"}
  DCs = {"jenkins"}
  MaxPods = 2
  None = None
SPECIFICATION Spec
INVARIANT MasterPodFailsOnlyByAssertion
