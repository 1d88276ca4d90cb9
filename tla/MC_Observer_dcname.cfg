\* check_for_deployment_config_status asked about a dc other than jenkins.
CONSTANTS
  Names <- MC_Names
  Ops = {"check_for_deployment_config_status", "set_env_for_deployment_config"}
  DCs = {"jenkins", "app"}
  MaxPods = 2
  None = None
SPECIFICATION Spec
INVARIANT WaitsOnNamedDc
