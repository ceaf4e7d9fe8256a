SPECIFICATION Spec
CONSTANTS
    Hosts = {h1, h2}
    Ips <- Addresses
    Configs <- Edits
    DefaultNetwork <- Default
    Pool = Pool
    None = None
    MaxFaults = 2
    h1 = h1
    h2 = h2
INVARIANTS
    TypeOK
    Bootable
    OnItsNetwork
    MgmtIsFound
    DhcpOnMgmtOnly
