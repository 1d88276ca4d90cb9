\* One run of the install scenario, project step included, against a fresh
\* cluster whose namespaces other clients create and delete.
CONSTANTS
  Controller = Controller
  Webhook = Webhook
  Projects <- MC_Projects
  None = None
SPECIFICATION Spec
INVARIANT TypeOK ConfiguredBeforeCommands
PROPERTY ImplementsUseProject
