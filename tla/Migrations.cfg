SPECIFICATION FairSpec
CONSTANTS
    MaxCrashes = 3
INVARIANTS
    VersionHonest
    ServesCurrentSchema
    FailsOnlyIfTorn
PROPERTIES
    ServesUnlessTorn
