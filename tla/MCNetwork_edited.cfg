SPECIFICATION Spec
CONSTANTS
    Hosts = {h1, h2}
    Ips <- Addresses
    Configs <- Readdressed
    DefaultNetwork <- Default
    Pool = Pool
    None = None
    MaxFaults = 0
    h1 = h1
    h2 = h2
INVARIANT
    ConfigRealized
