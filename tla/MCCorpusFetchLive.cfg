CONSTANTS
    Ids <- MCIds
    Key <- MCKey
    Order <- MCOrder
    Files <- MCFiles
    FileOrder <- MCFileOrder
    Hub <- MCHub
    LookupErrors <- MCLookupErrors
    FileErrors <- MCFileErrors
    Requests <- AllIds
    ResumeFlags = {TRUE}
    Limits = {2}
    Workers = 2
    MaxCrashes = 1
SPECIFICATION FairSpec
PROPERTY EveryoneReached
