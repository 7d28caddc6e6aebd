\* Three pages of up to two alarms, of which four are kept.
CONSTANTS
    MaxPages = 3
    MaxAlarms = 4
    PageLength = 2
    Tokens = {t1, t2, t3}
    NoToken = NoToken
    BadToken = BadToken
    NoResult = NoResult
    Failed = Failed
    ExpectedPorts = {1, 2}
    MaxPort = 3
    CpuHigh = 85
    BurstLow = 20
    Firewalls <- MCFirewalls
    Figures <- MCFigures
    Operator = FALSE
    Absent = Absent
    Garbled = Garbled
SYMMETRY TokenSymmetry
SPECIFICATION Spec
INVARIANTS
    PollInv
    QuietMeansQuiet
    HealthyMeansWell
