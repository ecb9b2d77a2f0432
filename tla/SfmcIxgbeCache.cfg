CONSTANTS
    NULL = NULL
    h = h g = g any = any net = net ph = ph
    i0 = i0 i1 = i1 c1 = c1 c2 = c2 f1 = f1
    Driver = "ixgbe"
    Id = {i0, i1} ZeroId = i0
    Host = {h, g} Locator = {h} Mac = {m1, m2}
    Prefix = {any, net, ph}
    Match <- MCMatch Plen <- MCPlen HostPfx <- MCHostPfx Route <- MCRoute
    Cfg = {c1, c2} Flow = {f1} ExtractId <- MCExtractId
    Fib = {o1, o2, o3, o4}
    Cpu = {p1}
    NeighLoss = {"failed"}
    MaxOps = 4
SPECIFICATION Spec
INVARIANT CachedRouteLive
SYMMETRY Symmetry
CHECK_DEADLOCK FALSE
