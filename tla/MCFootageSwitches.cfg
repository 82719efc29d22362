SPECIFICATION SwitchSpec
CONSTANTS
    c1 = c1
    s1 = s1
    s2 = s2
    v1 = v1
    v2 = v2
    None = None
    Cameras <- OneCamera
    Segs <- OneSeg
    CamOf <- S1C1
    Volumes <- TwoVolumes
    StartPool <- OnV1
    StartPrimary = v1
    MaxEdits = 5
    MaxFaults = 2
INVARIANTS SurvivesSwitches
