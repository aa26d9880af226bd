SPECIFICATION Spec
CONSTANTS
    ann = ann
    bob = bob
    a = a
    b = b
    c = c
    Null = Null
    NoTadig = NoTadig
    Users = {ann, bob}
    OtherRoles = {"VIEWER"}
    Populations <- TwoTables
    Edits = {1, 2}
    MaxEdits = 2
    Tabs = {"left", "right"}
    Credentials = {ann}
    Searches = {"known", "reachlist"}
    Empty = {"reachlist"}
    Recoverable = {"reachlist"}
    Slots = {1, 2}
    Searching = {"left"}
    Uploading = {"left"}
    Archives <- MCArchives
    OtherArchives <- Others
    MaxBatch = 4
    MaxSingle = 5
    Remembered <- SignedInOrNot
    Life = 1
    MaxEvents = 3
    MaxMixed = 2
INVARIANTS TypeOK AdminRemains UploadIsPrefix SplitKeepsPairs ResultsMatchSearch
PROPERTIES UploadEnds DeadSessionEnds RolesCatchUp
CHECK_DEADLOCK FALSE
