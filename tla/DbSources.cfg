SPECIFICATION Spec
CONSTANTS
    p1 = p1
    p2 = p2
    f = f
    g = g
    c1 = c1
    c2 = c2
    c3 = c3
    c4 = c4
    Procs = {p1, p2}
    Profiles = {f, g}
    Calls = {c1, c2, c3, c4}
    ProcOf <- MCProcOf
    ProfileOf <- MCProfileOf
    PortOf <- MCPortOf
    Direct = Direct
    None = None
    MaxFaults = 2
CHECK_DEADLOCK FALSE
SYMMETRY Symmetry
INVARIANTS
    NoTunnelLeak
    OneBuild
    ThroughOwnTunnel
