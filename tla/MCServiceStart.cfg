SPECIFICATION StartSpec
CONSTANTS
    p1 = p1
    p2 = p2
    Processes = {p1, p2}
    Files = {"llm-firewall.yaml", "other.yaml"}
    Documents <- SmallDocuments
    Environments <- SmallEnvironments
    ArgumentLists <- SmallArgumentLists
    PatternPaths <- SmallPatternPaths
    MaxLaunches = 2
    MaxEdits = 1
SYMMETRY SymmetricProcesses
INVARIANTS
    ServedConfigUsable
    CheckedConfigStarts
    ProbesAnswered
