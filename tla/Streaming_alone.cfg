SPECIFICATION Spec
CONSTANTS
    a = a  f = f  x = x  y = y  t = t  d = d  r1 = r1  r2 = r2  acc = acc
    Reaper = Reaper  Main = Main
    Accounts = {acc}
    LiveIds = {a}
    FilmIds = {}
    RecIds = {}
    Streams = {}
    Reqs = {r1}
    Wants <- Single
    Directs = {}
    CopyReqs = {}
    UseGpu = TRUE
    Faults = {"gpu", "hang", "source"}
    MaxProcs = 2
    PanelQuotas = {}
    MayStop = TRUE
    Conns = {a}
    AccountOf <- OneAccount
CHECK_DEADLOCK FALSE
INVARIANT TypeOK
PROPERTIES EveryRequestIsAnswered SessionsAreReleased
