SPECIFICATION NbaSpec
CONSTANTS
    a = a  b = b  c1 = c1  c2 = c2
    NoRow = NoRow  NoChan = NoChan  NoSlot = NoSlot  NoProgramme = NoProgramme
    NoGame = NoGame
    Games = {a, b}
    Teams <- MCTeams
    Tips <- MCTips
    RowIds = {1, 2, 3, 4, 5}
    Guides <- MCGuides
    FirstGuide <- MCFirstGuide
    Instants = {0, 600}
    Pads <- MCPads
    Keep = 10
    UserWindows <- MCWindows
    MaxEvents = 2
INVARIANTS NbaTypeOK PlannedApart OneMatchPerBroadcast
PROPERTIES OnlyTheUserDecides TouchesOnlyTheWaiting RefusalIsObeyed SuspensionIsObeyed WantedIsPlanned
CHECK_DEADLOCK FALSE
