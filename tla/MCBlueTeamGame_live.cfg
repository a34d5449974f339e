CONSTANTS
    soloLab = soloLab
    duoLab = duoLab
    jwtFilter = jwtFilter
    rateLimit = rateLimit
    flood = flood
    chat = chat
    other = other
    Soc = Soc
    NoPlayer = NoPlayer
    Labs = {soloLab}
    SoloLabs = {soloLab}
    Defenses = {jwtFilter}
    Price <- MCPrice
    InitialBudget = 3
    Events = {flood, other, chat, bad}
    LabOf <- MCSoloLabOf
    RuleJudged = {flood, other}
    Malicious = {flood}
    Requests = {r1, r2}
    BatchSize = 2
    RuleBatchSize = 1
    Unanalysable = {bad}
    MaxFaults = 1
SPECIFICATION QuietLiveSpec
PROPERTIES EventsJudged RuleEventsClosed RequestsEnd
