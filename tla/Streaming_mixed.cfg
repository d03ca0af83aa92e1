SPECIFICATION Spec
CONSTANTS
    a = a  f = f  x = x  y = y  t = t  d = d  r1 = r1  r2 = r2  acc = acc
    Reaper = Reaper  Main = Main
    Accounts = {acc}
    LiveIds = {}
    FilmIds = {f}
    RecIds = {}
    Streams = {t}
    Reqs = {r1, t, d}
    Wants <- Mixed
    Directs = {d}
    CopyReqs = {}
    UseGpu = FALSE
    Faults = {}
    MaxProcs = 2
    PanelQuotas = {2}
    MayStop = FALSE
    Conns = {f, t, d}
    AccountOf <- OneAccount
INVARIANTS SlotHasWatcher
PROPERTY ClaimMakesRoom
