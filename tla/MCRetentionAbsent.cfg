SPECIFICATION Spec
CONSTANTS
    Cameras = {c1}
    v1 = v1
    v2 = v2
    Volumes = {v1, v2}
    Policies <- MCPolicies
    None = none
    GlobalHard = 2
    Caps <- TwoCaps
    Sizes <- TwoSizes
    Floor = 1
    Batch = 2
    StatEvery = 1
    StartTime = 2
    MaxTime = 3
    MaxUpsets = 1
    MaxMarkers = 1
PROPERTY
    AbsentVolumeSkipped
CHECK_DEADLOCK FALSE
