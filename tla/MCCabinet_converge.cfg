\* No edits, no failures, one power cycle of the cabinet.
CONSTANTS
    c1 = c1
    i1 = i1
    f1 = f1
    f2 = f2
    NoFile = NoFile
    Cabs <- MCCabs
    IPs <- MCIPs
    IpOf <- MCIpOf
    Files <- MCFiles
    InitFiles = {f1, f2, NoFile}
    EditFiles = {f1, f2}
    Chunks = 2
    MaxEdits = 0
    MaxCycles = 1
    MaxFails = 0
SPECIFICATION FairSpec
PROPERTIES Convergence
