\* A ROM whose section table is already full.
CONSTANTS
    GameLoc = GameLoc
    SramLoc = SramLoc
    NoTrojan = NoTrojan
    None = None
    tA = tA
    tB = tB
    e1 = e1
    e2 = e2
    s1 = s1
    s2 = s2
    TrojanLocs = {tA}
    Eeproms = {e1, e2}
    Srams = {s1, s2}
    MaxSections = 1
    InitGames = {1}
    MaxPuts = 4
SPECIFICATION Spec
INVARIANTS CachedTypeCurrent
