SPECIFICATION Spec
CONSTANTS
    Distros = {d1}
    Templates = {t1, t2}
    Hosts = {h1, h2}
    DistroOf <- OneDistro
    TemplateOf <- OfFirst
    Ips = {ip1, ip10}
    IpsOf <- Addresses
    LooksLike <- Alike
    PowersOff = {t1, t2}
    None = None
    MaxTries = 2
    MaxFaults = 0
    d1 = d1
    d2 = d2
    t1 = t1
    t2 = t2
    h1 = h1
    h2 = h2
    ip1 = ip1
    ip10 = ip10
INVARIANTS
    KnownByName
