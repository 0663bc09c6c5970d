\* Fleet operations racing the poll thread, edits and transfers.
CONSTANTS
    c1 = c1
    c2 = c2
    i1 = i1
    f1 = f1
    f2 = f2
    NoFile = NoFile
    NoCab = NoCab
    Cabs <- MCCabs
    IPs <- MCIPs
    IpOf <- MCIpOf
    Files <- MCFiles
    InitFiles = {f1, NoFile}
    EditFiles = {f1, f2}
    Chunks = 1
    MaxEdits = 1
    MaxCycles = 1
    MaxFails = 1
SPECIFICATION MgrFairSpec
INVARIANTS MgrTypeOK TransportInStep
PROPERTIES EveryCabinetTicked
