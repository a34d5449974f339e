CONSTANTS
    soloLab = soloLab
    duoLab = duoLab
    jwtFilter = jwtFilter
    rateLimit = rateLimit
    flood = flood
    chat = chat
    other = other
    Soc = Soc
    NoPlayer = NoPlayer
    Labs = {soloLab, duoLab}
    SoloLabs = {soloLab}
    Defenses = {jwtFilter, rateLimit}
    Price <- MCPrice
    InitialBudget = 3
    Events = {flood, chat, other}
    LabOf <- MCLabOf
    RuleJudged = {flood}
    Malicious = {flood}
    Requests = {r1, r2}
    BatchSize = 2
    RuleBatchSize = 1
    Unanalysable = {}
    MaxFaults = 1
SPECIFICATION Spec
SYMMETRY Symmetric
INVARIANTS TypeOK BudgetBalances SocServesSoloLabs RuleDecidesRuleEvents
PROPERTIES VerdictIsFinal PaidForOwnEvents ImplementsLedger
