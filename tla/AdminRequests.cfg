SPECIFICATION Spec
CONSTANTS
    Classes <- MCClasses
    Upgrades <- MCUpgrades
    Downgrades <- MCDowngrades
    Resources = {"orgs", "projects", "datasets"}
    Directory <- MCDirectory
    Demo <- MCDemo
    Seeds <- MCSeeds
    Values = {1, 2}
    Slots = {"q", "r"}
    MaxRows = 4
    MaxRequests = 3
INVARIANTS CatalogueTypeOK MigrationBuildsModels AuditReplays EventsOfOwnOrg
CHECK_DEADLOCK FALSE
