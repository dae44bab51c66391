CONSTANTS
    Ids <- MCIds
    Key <- MCKey
    Order <- MCOrder
    Files <- MCFiles
    FileOrder <- MCFileOrder
    Hub <- MCHub
    LookupErrors <- MCLookupErrors
    FileErrors <- MCFileErrors
    Requests <- AllIds
    ResumeFlags = {TRUE}
    Limits = {1}
    Workers = 2
    MaxCrashes = 0
SPECIFICATION FairSpec
PROPERTY EveryoneReached
