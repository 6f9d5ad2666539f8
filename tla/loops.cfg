CONSTANTS
    owner = owner
    lp = lp
    hf = hf
    btc = btc
    t1 = t1
    t2 = t2
    r1 = r1
    r2 = r2
    Alerts = {lp, hf, btc}
    AlertOwner <- MCAlertOwner
    AlertKind <- MCAlertKind
    NotifyReturn = {lp, hf}
    Edges = {0}
    Scale = 2
    EdgeRearm = 2
    Threshold = 1
    HealthRearm = 1
    Level = 2
    PriceRearm = 2
    Confirmations <- MCConfirmations
    AlertCap = 2
    MaxConfirmed = 2
    MaxSwings = 2
    MaxTroubles = 2
    Tasks = {t1, t2}
    TaskOwner <- MCTaskOwner
    TaskCap = 1
    TaskBatch = 2
    MaxDoors = 1
    MaxBreaks = 1
    Ideas = {r1, r2}
    IdeaAuthor <- MCIdeaAuthor
    Statuses = {"new", "planned", "done"}
    New = "new"
    DailyLimit = 1
    NewsBatch = 2
    MaxTriage = 2
    MaxMinds = 3
    MaxCrashes = 1
    server = server
    tool = tool
    Processes = {"console"}
    Edits = {e1, e2}
    Servers = {server}
    Tools = {tool}
    Mutates = {tool}
    ServerOf <- MCServerOf
    Scalars = {"wide", "narrow"}
    Environment <- MCEnvironment
    MaxEdits = 4
    MaxSlips = 1
SPECIFICATION Spec
INVARIANTS
    LoopsInv
    ConfigurationInv
PROPERTIES
    ToldForCause
    FollowsChanges
    LoopsDeliver
CHECK_DEADLOCK FALSE
