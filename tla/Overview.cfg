\* The default ports; times in intervals.
CONSTANTS
    PublicTcp = {22, 80}
    LoopbackTcp = {8787, 10084}
    PublicUdp = {}
    LoopbackUdp = {}
    MaxLines = 10
    Reporters = {"aws"}
    Inventories <- MCInventories
    Answers <- MCAnswers
    Reactions <- MCReactions
    ProbeEvery = 2
    FreshFor = 4
    PruneEvery = 3
    RawKeep = 4
    StaleAfter = 1
    Day = 1
    Cap = 5
    Changes = 3
    Fails = Fails
    Raises = Raises
    NoRow = NoRow
SPECIFICATION Spec
INVARIANTS
    OverviewInv
    StatusExplained
    StoreAgrees
    StatusTrue
