SPECIFICATION FairSpec
CONSTANTS
    Texts <- MCTexts
    Openings <- MCOpenings
    MaxTokens = 5
INVARIANTS
    TreesAreReadBack
    NothingIsDropped
    PartsAreThere
PROPERTIES
    TokensAreInOrder
    ParsesOrReports
