SPECIFICATION Spec
CONSTANTS
    a = a  f = f  x = x  y = y  t = t  d = d  r1 = r1  r2 = r2  acc = acc
    Reaper = Reaper  Main = Main
    Accounts = {acc}
    LiveIds = {a}
    FilmIds = {}
    RecIds = {}
    Streams = {}
    Reqs = {r1, r2}
    Wants <- OneChannel
    Directs = {}
    CopyReqs = {}
    UseGpu = FALSE
    Faults = {}
    MaxProcs = 2
    PanelQuotas = {}
    MayStop = FALSE
    Conns = {a}
    AccountOf <- OneAccount
PROPERTY WatchedKeepsItsSlot
