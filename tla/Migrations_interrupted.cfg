SPECIFICATION FairSpec
CONSTANTS
    MaxCrashes = 1
PROPERTIES
    NoManualStep
