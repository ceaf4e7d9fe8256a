SPECIFICATION Spec

CONSTANTS
    c1 = c1
    c2 = c2
    w1 = w1
    w2 = w2
    w3 = w3
    h1 = h1
    h2 = h2
    t1 = t1
    t2 = t2
    s1 = s1
    e1 = e1
    e2 = e2
    x1 = x1
    Broken = Broken
    None = None
    Hosts = {h1, h2}
    Templates = {t1, t2}
    TemplateOf <- MCTemplateOf
    ExecHost <- MCExecHost
    Clusters = {c1}
    WatchPoints = {w1}
    Values = {v1, v2}
    Execs = {e1, x1}
    SshExecs = {e1}
    Outcomes = {good}
    Configs <- OneCluster
    Solo <- MCSoloNone
    MaxChanges = 1
    MaxEdits = 0
    MaxFaults = 1

INVARIANT
    NewsIsTested
