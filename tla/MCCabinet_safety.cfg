\* Filename edits among real ROMs, power cycles and transfer failures.
CONSTANTS
    c1 = c1
    i1 = i1
    f1 = f1
    f2 = f2
    NoFile = NoFile
    Cabs <- MCCabs
    IPs <- MCIPs
    IpOf <- MCIpOf
    Files <- MCFiles
    InitFiles = {f1, f2, NoFile}
    EditFiles = {f1, f2}
    Chunks = 2
    MaxEdits = 3
    MaxCycles = 2
    MaxFails = 1
SPECIFICATION FairSpec
INVARIANTS TypeOK TransportInStep
PROPERTIES TransferEnds ImplementsDelivery
