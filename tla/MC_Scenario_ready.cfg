\* One run of the install scenario against a fresh cluster.
CONSTANTS
  Controller = Controller
  Webhook = Webhook
  Projects <- MC_Projects
  None = None
SPECIFICATION Spec
INVARIANT TektonCheckMeansReady
