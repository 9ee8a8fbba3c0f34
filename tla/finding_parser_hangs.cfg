SPECIFICATION FairSpec
CONSTANTS
    Texts = {}
    Openings <- MCOpenings
    MaxTokens = 4
PROPERTY ErrorsEndTheParse
