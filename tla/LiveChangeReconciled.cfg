CONSTANTS
    None = None
    plugin1 = plugin1
    plugin2 = plugin2
    core = core
    Plugin = {plugin1, plugin2}
    InBox = {core}
    MaxCommit = 3
    Manifest <- MCManifest
    Operation = {1, 2, 3, 4}
    UserRows <- MCUserRows
    Scenarios <- MCScenarios
    MaxKills = 1
    Generation = {1}
    MaxDamages = 0
    MaxCrashes = 0
    Launcher = {l1}
    MaxDeaths = 0
    row1 = row1
    row2 = row2
    RowId = {row1, row2}
    Setting = {1}
    Documents <- MCDocuments
    MaxEdits = 0
    i1 = i1
    i2 = i2
    service = service
    Item = {i1, i2}
    ServiceOnly = {service}
    ReservedName = {"PATH"}
    PolicyName = {"DSH_TELEMETRY_DISABLED"}
    Imports <- MCImports
    MaxMoves = 0
    MaxChanges = 0
    MaxSecrets = 0
    Instance = {n1, n2}
    Switch = {s1, s2}
    Change = {c1}
    MaxRevision = 1
    MaxBoots = 2
SPECIFICATION MCSpec
INVARIANTS
    ChangesAreIsolated
CHECK_DEADLOCK FALSE
