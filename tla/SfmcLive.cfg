CONSTANTS
    NULL = NULL
    h = h g = g any = any net = net ph = ph
    i0 = i0 i1 = i1 c1 = c1 c2 = c2 f1 = f1
    Driver = "e1000"
    Id = {i0} ZeroId = i0
    Host = {h, g} Locator = {h} Mac = {m1, m2}
    Prefix = {any, net, ph}
    Match <- MCMatch Plen <- MCPlen HostPfx <- MCHostPfx Route <- MCTwoRoutes
    Cfg = {} Flow = {f1} ExtractId <- NoConfig
    Fib = {o1, o2, o3}
    Cpu = {p1}
    NeighLoss = {}
    MaxOps = 3
SPECIFICATION FairSpec
INVARIANT InFlightRouteLive
PROPERTY RoutedFlowDelivered
CHECK_DEADLOCK FALSE
