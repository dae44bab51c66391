CONSTANTS
    Ids <- MCIds
    Key <- MCKey
    Order <- MCOrder
    Files <- MCFiles
    FileOrder <- MCFileOrder
    Hub <- MCHub
    LookupErrors <- MCLookupErrors
    FileErrors <- MCFileErrors
    Requests <- MCRequests
    ResumeFlags = {TRUE, FALSE}
    Limits = {1, 3}
    Workers = 2
    MaxCrashes = 1
SPECIFICATION Spec
INVARIANT DocumentsAreWhole
INVARIANT RecordsAreTrue
INVARIANT StaleIsRetried
PROPERTY CompletedKept
