SPECIFICATION Spec
CONSTANTS
    Cameras = {c1}
    main = main
    sub = sub
    Streams = {main, sub}
    StartRows <- MCRows
    StartVolume = v1
    Volumes = {v1, v2}
    Recs <- OneToFive
    Sup = sup
    Requests = {q1}
    None = none
    BackoffCap = 2
    MaxEdits = 2
    MaxDeaths = 1
    MaxFaults = 1
INVARIANTS
    OneFfmpegPerCamera
CHECK_DEADLOCK FALSE
