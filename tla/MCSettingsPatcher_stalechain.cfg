\* Two trojan builds with different load addresses.
CONSTANTS
    GameLoc = GameLoc
    SramLoc = SramLoc
    NoTrojan = NoTrojan
    None = None
    tA = tA
    tB = tB
    e1 = e1
    e2 = e2
    s1 = s1
    s2 = s2
    TrojanLocs = {tA, tB}
    Eeproms = {e1, e2}
    Srams = {s1, s2}
    MaxSections = 3
    InitGames = {1, 2}
    MaxPuts = 4
SPECIFICATION Spec
INVARIANTS LatestSettingsBoot
