SPECIFICATION FairSpec
CONSTANTS
    c1 = c1
    d1 = d1
    v1 = v1
    v2 = v2
    None = None
    Week = 2
    Day = 3
    Rules <- MCRules
    RuleOf <- MCRuleOf
    Cameras = {c1}
    Devices = {d1}
    Shades = {v1, v2}
    StartTables <- MCTables
    MaxEdits = 2
    MaxFaults = 1
INVARIANTS
    WindowsMatch
    RecordsAsScheduled
    RelaysAsScheduled
PROPERTIES
    OncePerOpening
    Served
