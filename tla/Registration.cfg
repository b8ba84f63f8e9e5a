SPECIFICATION RegistrationFairSpec
CONSTANTS
    MaxKeys = 2
    MaxIssued = 3
    MaxCrashes = 2
    MaxRetries = 1
 
PROPERTIES TokenOrIdentity RegisterReturns
CHECK_DEADLOCK FALSE
