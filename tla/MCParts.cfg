SPECIFICATION Spec
CHECK_DEADLOCK FALSE
SYMMETRY Symmetry
CONSTANTS
    Absent = Absent
    Nothing = Nothing
    Unused = Unused
    NoId = NoId
    Nobody = Nobody
    Torn = Torn
    Gone = Gone
    NoRec = NoRec
    Corrupt = Corrupt
    sites = sites
    holy = holy
    bundled = bundled
    curated = curated
    holyid = holyid
    p1 = p1
    p2 = p2
    root = root
    bun = bun
    pnpm = pnpm
    foreign = foreign
    i1 = i1
    m1 = m1
    k1 = k1
    r1 = r1
    r2 = r2
    d1 = d1
    d2 = d2
    Bun = bun
    Foreign = foreign
    Usual = "usual"
    Standard = {"sites"}
    Shas = {"c1", "c2"}
    Tags = {"v1"}
    Betas = {}
    Levels = {3, 6, 9, 12, 17, 90}
    Required = {"requests"}
    Releases = {1, 2}
    MaxDirs = 2
    ArchiveLimit = 1
    MaxRuns = 3
    MaxFaults = 1
    MaxVersion = 2
    MaxUses = 2
    MaxFails = 1
    MaxMoves = 2
    Credits = {d1, d2}
    Providers <- MCProviders
    Ids <- MCIds
    Canonical <- MCCanonical
    Candidates <- MCCandidates
    Starts <- MCStarts
    Budget <- MCBudget
    Procs <- MCProcs
    Commands <- MCCommands
    Managers <- MCManagers
    Invalid <- MCInvalid
    Markets <- MCMarkets
    Offered <- MCOffered
    Keys <- MCKeys
    ReviewLimits <- MCReviewLimits
    Profiles <- MCProfiles
    Carried <- MCCarried
    OptIns <- MCOptIns
    PluginOf <- MCPluginOf
    Basic <- MCBasic
    Extras <- MCExtras
    Flags <- MCFlags
    ChoiceLimits <- MCChoiceLimits
    Runs <- MCRuns
    Digests <- MCDigests
    CanonicalOf <- MCCanonicalOf
    Triggers <- MCTriggers
    ReleaseLimits <- MCReleaseLimits
    Agents <- MCAgents
    Plans <- MCPlans
    ResetLimits <- MCResetLimits
    BindingsLimits <- MCBindingsLimits
INVARIANTS
    LockedWritesStand
    PlansKept
    ToolsTold
    EndsAsFound
    ChoicesFollowed
    OptionsMatchRecord
    OneArtifactPerVersion
    WholeTreeReturned
PROPERTIES
    EffectsReported
    OthersSpared
    LostOnlyToMigration
    UserToolsStay
    OnlyReviewedReplaced
    SpentOnlyWhenLow
