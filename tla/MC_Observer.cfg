\* Every operation, two names, jenkins and one other dc, up to two pods.
CONSTANTS
  Names <- MC_Names
  Ops <- MC_AllOps
  DCs = {"jenkins", "app"}
  MaxPods = 2
  None = None
SPECIFICATION Spec
INVARIANT TypeOK FollowsErrorPolicy
