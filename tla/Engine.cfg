SPECIFICATION Spec
CONSTANTS
    Events <- MCEvents
    MaxEvents = 7
    MaxStrings = 3
    MaxComments = 1
    RedactedMark <- MCMark
    Contents <- MCContents
    Settings <- MCSettings
    Texts <- MCTexts
INVARIANTS
    NothingDetectedIsReleased
    OnlyFindingsAreHidden
    ReleasedIsWhole
    AuthorizationMatchesRelease
    ResponseFollowsPolicy
CHECK_DEADLOCK FALSE
