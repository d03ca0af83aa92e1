SPECIFICATION Spec
CONSTANTS
    a = a  f = f  x = x  y = y  t = t  d = d  r1 = r1  r2 = r2  acc = acc
    Reaper = Reaper  Main = Main
    Accounts = {acc}
    LiveIds = {}
    FilmIds = {}
    RecIds = {x, y}
    Streams = {}
    Reqs = {r1, r2}
    Wants <- Offsets
    Directs = {}
    CopyReqs = {r1}
    UseGpu = FALSE
    Faults = {}
    MaxProcs = 2
    PanelQuotas = {}
    MayStop = FALSE
    Conns = {}
    AccountOf <- OneAccount
INVARIANT NoProcessIsLost
