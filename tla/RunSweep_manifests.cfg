SPECIFICATION Spec
CONSTANTS
    Manifest <- Manifests
    Activation = 1
    Fuel = 1
    Cost = {0, 2}
    None = None
CHECK_DEADLOCK FALSE
INVARIANTS FollowsEdges OutcomeJustified SpendBounded
