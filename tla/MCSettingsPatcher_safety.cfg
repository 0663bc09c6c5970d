\* One trojan build, both kinds of settings, a ROM with room for one or two
\* more sections, four puts.
CONSTANTS
    GameLoc = GameLoc
    SramLoc = SramLoc
    NoTrojan = NoTrojan
    None = None
    tA = tA
    tB = tB
    e1 = e1
    e2 = e2
    s1 = s1
    s2 = s2
    TrojanLocs = {tA}
    Eeproms = {e1, e2}
    Srams = {s1, s2}
    MaxSections = 3
    InitGames = {1, 2}
    MaxPuts = 4
SPECIFICATION Spec
INVARIANTS TypeOK EntryChainsToGame LatestSettingsBoot RomGrowthBounded
