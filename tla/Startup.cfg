SPECIFICATION FairSpec
CONSTANTS
    image = image
    migrate = migrate
    api = api
    local = local
    Procs = {image, migrate, api, local}
    Role <- RoleOf
    Files <- TwoFiles
    Posted = {"post"}
    MaxStarts = 2
INVARIANTS
    TypeOK
    SeededTogether
    WaitersHoldNothing
    ServesMigratedSchema
    ServingIsSeeded
PROPERTIES
    StartsOrFails
CHECK_DEADLOCK FALSE
