CONSTANTS
    soloLab = soloLab
    duoLab = duoLab
    jwtFilter = jwtFilter
    rateLimit = rateLimit
    flood = flood
    chat = chat
    other = other
    Soc = Soc
    NoPlayer = NoPlayer
    Labs = {soloLab}
    SoloLabs = {soloLab}
    Defenses = {jwtFilter}
    Price <- MCPrice
    InitialBudget = 3
    Events = {chat, bad}
    LabOf <- MCSoloLabOf
    RuleJudged = {}
    Malicious = {}
    Requests = {r1}
    BatchSize = 1
    RuleBatchSize = 1
    Unanalysable = {bad}
    MaxFaults = 0
SPECIFICATION LiveSpec
PROPERTIES EventsJudged
