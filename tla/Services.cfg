CONSTANTS
    None = None
    plugin1 = plugin1
    plugin2 = plugin2
    core = core
    Plugin = {plugin1, plugin2}
    InBox = {core}
    MaxCommit = 3
    Manifest <- MCManifest
    Operation = {1, 2, 3, 4}
    UserRows <- MCUserRows
    Scenarios <- MCScenarios
    MaxKills = 1
    Generation = {1, 2, 3}
    MaxDamages = 1
    MaxCrashes = 1
    Launcher = {l1, l2}
    MaxDeaths = 1
    row1 = row1
    row2 = row2
    RowId = {row1, row2}
    Setting = {1, 2}
    Documents <- MCDocuments
    MaxEdits = 4
    i1 = i1
    i2 = i2
    service = service
    Item = {i1, i2}
    ServiceOnly = {service}
    ReservedName = {"PATH"}
    PolicyName = {"DSH_TELEMETRY_DISABLED"}
    Imports <- MCImports
    MaxMoves = 2
    MaxChanges = 1
    MaxSecrets = 1
    Instance = {n1, n2}
    Switch = {s1, s2}
    Change = {c1}
    MaxRevision = 2
    MaxBoots = 3
SPECIFICATION MCSpec
INVARIANTS
    InstalledListIsTrue
    ConsentCoversScripts
    RuntimeIsAudited
    ChildEnvironmentIsWhole
    SwitchesAreIsolated
PROPERTIES
    RemovalLeavesNoReference
    AnswersStayFinal
    ProfileInUseStays
    EditMeansWhatItSays
CHECK_DEADLOCK FALSE
