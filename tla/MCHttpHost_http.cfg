SPECIFICATION FairSpec
CONSTANTS
    Caller = {c1, c2}
    Host <- MCHost
    Credentials <- MCCredentials
    Tenant <- MCTenant
    NoHost = none
    IdempotencyKey = TRUE
    Status = {200, 500}
    MaxConns = 2
    none = none
INVARIANTS
    HttpTypeOK
    NoHiddenRetry
    StatusNotOlder
    TokenStaysHome
PROPERTIES
    EveryCallAnswered
