SPECIFICATION FairSpec
CONSTANTS
    MaxIssued = 5
    MaxCrashes = 2
INVARIANTS
    NeverNewCertOldKey
    MismatchNeverTrusted
    LiveIsDisk
    LostOnlyByForeign
PROPERTIES
    ServesAgain
    ExpiredReplaced
