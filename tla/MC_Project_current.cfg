\* Steps using either of two projects, with other clients creating and
\* deleting them.
CONSTANTS
  Projects <- MC_Projects
  None = None
SPECIFICATION Spec
INVARIANT UsedProjectIsCurrent
